---- MODULE Spec2Model ----
(***************************************************************************)
(* Steam news HTML pipeline of the launcher's renderer                     *)
(* (steam-news-modal: sanitizeNewsHtml and its helpers).                   *)
(*                                                                         *)
(* The DOM that sanitizeNewsHtml mutates is a node table: node 0 is the    *)
(* detached container <div>, nodes 1..n are the elements and text nodes    *)
(* the HTML parser created for the markup.  kids[p] is the live child list *)
(* of p, so a node removed from its parent stays in the table, detached,   *)
(* exactly as a removed DOM node stays alive while the snapshot array      *)
(* still references it.                                                    *)
(*                                                                         *)
(* Attribute values are sequences of chunks ("https", ":", "/", words)     *)
(* so that startsWith("//") and the URL parser's scheme test are computed  *)
(* on the value, not assumed.                                              *)
(***************************************************************************)
EXTENDS Naturals, Sequences, FiniteSets

VARIABLES dom0, dom, pc, out1, out, contents, entry, rendered, newsCover, preprocessed,
          games, steamApi, language, now, newsCache, calls, roundLog,
          collections, ops

\* What the news card and the first half of the modal's memo hold
news == <<contents, entry, rendered, newsCover, preprocessed>>

\* The main process's news service: the games and assets sublevels, what
\* the Steam API answers, the caller's language, Date.now(), the module's
\* newsCache, the calls of getSteamNewsForLibrary and what the logger wrote
\* about the last round that ended
service == <<games, steamApi, language, now, newsCache, calls, roundLog>>

\* The collections sublevel and the collection handlers that are running
store == <<collections, ops>>

backend == <<service, store>>

renderer == <<dom0, dom, pc, out1, out, contents, entry, rendered, newsCover, preprocessed>>

vars == <<dom0, dom, pc, out1, out, contents, entry, rendered, newsCover, preprocessed,
          games, steamApi, language, now, newsCache, calls, roundLog,
          collections, ops>>

\* Largest number of nodes (elements and text nodes) of an input DOM, in the
\* family of nested markup and in the family of links and media.
MaxNodes == 3

MaxUrlNodes == 2

\* Largest number of pieces of markup (a BBCode pair, a tag, a word, a
\* newline) a news item's contents are put together from.
MaxPieces == 2

-----------------------------------------------------------------------------
(* Sequence helpers *)

RECURSIVE Concat(_)
Concat(ss) == IF ss = <<>> THEN <<>> ELSE Head(ss) \o Concat(Tail(ss))

RECURSIVE SortedSeq(_)
SortedSeq(S) ==
    IF S = {} THEN <<>>
    ELSE LET m == CHOOSE x \in S : \A y \in S : x <= y
         IN  <<m>> \o SortedSeq(S \ {m})

Range(s) == {s[i] : i \in 1..Len(s)}

IndexOf(s, x) == CHOOSE i \in 1..Len(s) : s[i] = x

-----------------------------------------------------------------------------
(* The tag sets of sanitizeNewsHtml *)

allowedTags ==
    {"a", "b", "strong", "i", "em", "u", "s", "p", "div", "ul", "ol", "li",
     "br", "img", "h1", "h2", "h3", "h4", "h5", "h6", "blockquote", "code",
     "pre", "span", "table", "thead", "tbody", "tr", "td", "th", "figure",
     "figcaption", "video", "source", "hr", "small", "sup", "sub"}

BlockedTags == {"script", "style", "iframe", "object", "embed", "link", "meta"}

TextTag == "#text"

\* Elements the HTML serializer writes without an end tag.
VoidTags == {"br", "img", "source", "hr", "embed", "link", "meta"}

-----------------------------------------------------------------------------
(* URL helpers *)

Invalid == "invalid"

IsWord(c) == c \notin {":", "/", " "}

RECURSIVE TrimLeft(_)
TrimLeft(v) == IF v # <<>> /\ Head(v) = " " THEN TrimLeft(Tail(v)) ELSE v

RECURSIVE TrimRight(_)
TrimRight(v) ==
    IF v # <<>> /\ v[Len(v)] = " " THEN TrimRight(SubSeq(v, 1, Len(v) - 1)) ELSE v

RECURSIVE SkipSlashes(_)
SkipSlashes(v) == IF v # <<>> /\ Head(v) = "/" THEN SkipSlashes(Tail(v)) ELSE v

\* new URL(v).protocol without the colon, or Invalid when the constructor
\* throws: no base URL is given, so a value without a scheme fails, and a
\* special scheme (http, https) needs a host.
UrlProtocol(v) ==
    LET s == TrimRight(TrimLeft(v))
    IN  IF Len(s) < 2 \/ ~IsWord(s[1]) \/ s[2] # ":" THEN Invalid
        ELSE IF s[1] \in {"http", "https"}
             THEN LET rest == SkipSlashes(SubSeq(s, 3, Len(s)))
                  IN  IF rest # <<>> /\ IsWord(Head(rest)) THEN s[1] ELSE Invalid
             ELSE s[1]

absolutizeUrl(value) ==
    IF Len(value) >= 2 /\ value[1] = "/" /\ value[2] = "/"
    THEN <<"https", ":">> \o value
    ELSE value

isHttpUrlAny(value) == TRUE

isHttpUrlAsWritten(value) ==
    LET p == UrlProtocol(value)
    IN  p = "http" \/ p = "https"

isHttpUrl(value) ==
    LET p == UrlProtocol(absolutizeUrl(value))
    IN  p = "http" \/ p = "https"

-----------------------------------------------------------------------------
(* DOM primitives *)

NoParent == 99

Nodes(d) == 1..d.n

IsElement(d, x) == d.tag[x] # TextTag

\* el.parentNode
Parent(d, x) ==
    IF \E p \in 0..d.n : x \in Range(d.kids[p])
    THEN CHOOSE p \in 0..d.n : x \in Range(d.kids[p])
    ELSE NoParent

\* el.remove()
RemoveNode(d, x) ==
    LET p == Parent(d, x)
    IN  IF p = NoParent THEN d
        ELSE [d EXCEPT !.kids[p] = SelectSeq(d.kids[p], LAMBDA y : y # x)]

HasAttr(d, x, name) == \E i \in 1..Len(d.attrs[x]) : d.attrs[x][i][1] = name

\* el.getAttribute(name); only used where HasAttr holds
GetAttr(d, x, name) ==
    d.attrs[x][CHOOSE i \in 1..Len(d.attrs[x]) : d.attrs[x][i][1] = name][2]

\* el.setAttribute(name, value): replaces in place, else appends
SetAttr(d, x, name, value) ==
    IF HasAttr(d, x, name)
    THEN [d EXCEPT !.attrs[x] =
            [i \in 1..Len(@) |-> IF @[i][1] = name THEN <<name, value>> ELSE @[i]]]
    ELSE [d EXCEPT !.attrs[x] = Append(@, <<name, value>>)]

\* el.removeAttribute(name)
RemoveAttr(d, x, name) ==
    [d EXCEPT !.attrs[x] = SelectSeq(@, LAMBDA a : a[1] # name)]

\* The page the renderer runs in; a reflected URL property resolves against it.
DocumentUrl == <<"file", ":", "/", "/", "/", "index.html">>

\* getAttribute(name) || el[name] || "" for the reflected URL attributes
\* href and src: a missing attribute reads null and the property "", an
\* empty attribute reads "" and the property the document's own URL.
AttrOrProp(d, x, name) ==
    IF HasAttr(d, x, name)
    THEN IF GetAttr(d, x, name) # <<>> THEN GetAttr(d, x, name) ELSE DocumentUrl
    ELSE <<>>

\* root.querySelectorAll(selector): the descendant elements of root with a
\* tag in tags, in document order
RECURSIVE QueryAll(_, _, _)
QueryAll(d, root, tags) ==
    Concat([i \in 1..Len(d.kids[root]) |->
        LET c == d.kids[root][i]
        IN  (IF IsElement(d, c) /\ d.tag[c] \in tags THEN <<c>> ELSE <<>>)
            \o QueryAll(d, c, tags)])

ElementTags(d) == {d.tag[x] : x \in Nodes(d)} \ {TextTag}

\* Every node in the tree under root, root excluded
RECURSIVE Descendants(_, _)
Descendants(d, root) ==
    UNION {{c} \cup Descendants(d, c) : c \in Range(d.kids[root])}

-----------------------------------------------------------------------------
(* sanitizeNewsHtml *)

\* for (const bad of Array.from(container.querySelectorAll("script,...")))
\*   bad.remove();
RECURSIVE RemoveEach(_, _)
RemoveEach(d, xs) ==
    IF xs = <<>> THEN d ELSE RemoveEach(RemoveNode(d, Head(xs)), Tail(xs))

RemoveBadTopLevelOnly(d) ==
    RemoveEach(d, SelectSeq(d.kids[0], LAMBDA x : d.tag[x] \in BlockedTags))

RemoveBad(d) == RemoveEach(d, QueryAll(d, 0, BlockedTags))

\* The snapshot the walk iterates: Array.from(container.querySelectorAll("*"))
WalkSnapshotChildrenOnly(d) == SelectSeq(d.kids[0], LAMBDA x : IsElement(d, x))

WalkSnapshot(d) == QueryAll(d, 0, ElementTags(d))

\* A tag outside allowedTags: the children are inserted before el, in order,
\* and el is removed; a detached el is only removed (a no-op).
UnwrapDroppingChildren(d, el) == RemoveNode(d, el)

Unwrap(d, el) ==
    LET parent == Parent(d, el)
    IN  IF parent = NoParent THEN RemoveNode(d, el)
        ELSE LET ks == d.kids[parent]
                 i  == IndexOf(ks, el)
             IN  [d EXCEPT !.kids[parent] =
                        SubSeq(ks, 1, i - 1) \o d.kids[el] \o SubSeq(ks, i + 1, Len(ks)),
                           !.kids[el] = <<>>]

\* for (const attr of Array.from(el.attributes)) el.removeAttribute(attr.name)
StripEveryOtherAttribute(d, el) ==
    [d EXCEPT !.attrs[el] = [i \in 1..(Len(@) \div 2) |-> @[2 * i]]]

StripAttributes(d, el) == [d EXCEPT !.attrs[el] = <<>>]

\* if (tag === "a"): runs on the element after its attributes were removed
SanitizeARemovingUnsafe(d, el) ==
    LET href == absolutizeUrl(AttrOrProp(d, el, "href"))
    IN  IF isHttpUrl(href)
        THEN SetAttr(SetAttr(SetAttr(d, el, "href", href),
                             el, "target", <<"_blank">>),
                     el, "rel", <<"noopener noreferrer">>)
        ELSE RemoveNode(d, el)

SanitizeA(d, el) ==
    LET href == absolutizeUrl(AttrOrProp(d, el, "href"))
    IN  IF isHttpUrl(href)
        THEN SetAttr(SetAttr(SetAttr(d, el, "href", href),
                             el, "target", <<"_blank">>),
                     el, "rel", <<"noopener noreferrer">>)
        ELSE d

\* if (tag === "img")
SanitizeImgKeepingUnsafe(d, el) ==
    LET src == absolutizeUrl(AttrOrProp(d, el, "src"))
    IN  IF isHttpUrl(src)
        THEN SetAttr(SetAttr(d, el, "src", src), el, "loading", <<"lazy">>)
        ELSE d

SanitizeImg(d, el) ==
    LET src == absolutizeUrl(AttrOrProp(d, el, "src"))
    IN  IF isHttpUrl(src)
        THEN SetAttr(SetAttr(d, el, "src", src), el, "loading", <<"lazy">>)
        ELSE RemoveNode(d, el)

\* for (const source of Array.from(video.querySelectorAll("source")))
RECURSIVE SanitizeSources(_, _)
SanitizeSources(d, srcs) ==
    IF srcs = <<>> THEN d
    ELSE LET source == Head(srcs)
             ok == /\ HasAttr(d, source, "src")
                   /\ GetAttr(d, source, "src") # <<>>
                   /\ isHttpUrl(GetAttr(d, source, "src"))
         IN  SanitizeSources(
                 IF ok
                 THEN SetAttr(d, source, "src", absolutizeUrl(GetAttr(d, source, "src")))
                 ELSE RemoveNode(d, source),
                 Tail(srcs))

\* if (tag === "video")
SanitizeVideo(d, el) ==
    LET ok == /\ HasAttr(d, el, "src")
              /\ GetAttr(d, el, "src") # <<>>
              /\ isHttpUrl(GetAttr(d, el, "src"))
        d1 == IF ok
              THEN SetAttr(SetAttr(d, el, "src", absolutizeUrl(GetAttr(d, el, "src"))),
                           el, "controls", <<"true">>)
              ELSE d
    IN  SanitizeSources(d1, QueryAll(d1, el, {"source"}))

\* if (tag === "table")
SanitizeTable(d, el) == RemoveAttr(SetAttr(d, el, "border", <<"0">>), el, "style")

\* The body of the walk's for loop, for one element of the snapshot
SanitizeEl(d, el) ==
    LET tag == d.tag[el]
    IN  IF tag \notin allowedTags THEN Unwrap(d, el)
        ELSE LET d1 == StripAttributes(d, el)
                 d2 == IF tag = "a" THEN SanitizeA(d1, el) ELSE d1
                 d3 == IF tag = "img" THEN SanitizeImg(d2, el) ELSE d2
                 d4 == IF tag = "video" THEN SanitizeVideo(d3, el) ELSE d3
             IN  IF tag = "table" THEN SanitizeTable(d4, el) ELSE d4

RECURSIVE Walk(_, _)
Walk(d, els) ==
    IF els = <<>> THEN d ELSE Walk(SanitizeEl(d, Head(els)), Tail(els))

\* The tree sanitizeNewsHtml leaves in the container
SanitizeDom(d) ==
    LET d1 == RemoveBad(d)
    IN  Walk(d1, WalkSnapshot(d1))

-----------------------------------------------------------------------------
(* container.innerHTML (getter): tokens <<kind, name, attributes>>.  Text is
   written character by character, so adjacent text nodes run together. *)

RECURSIVE SerializeNode(_, _)
SerializeNode(d, x) ==
    IF d.tag[x] = TextTag
    THEN [i \in 1..Len(d.text[x]) |-> <<"text", d.text[x][i], <<>>>>]
    ELSE <<<<"open", d.tag[x], d.attrs[x]>>>>
         \o (IF d.tag[x] \in VoidTags THEN <<>>
             ELSE Concat([i \in 1..Len(d.kids[x]) |-> SerializeNode(d, d.kids[x][i])])
                  \o <<<<"close", d.tag[x], <<>>>>>>)

Serialize(d) == Concat([i \in 1..Len(d.kids[0]) |-> SerializeNode(d, d.kids[0][i])])

-----------------------------------------------------------------------------
(* container.innerHTML = html (setter): the HTML tree builder, "in body",
   for the tags of the input family.  It is applied to markup the serializer
   wrote, so every tag is closed in order; what the tree builder still
   changes is modelled: runs of characters become one text node, void
   elements take no end tag, a <p> start tag first closes a <p> that is open
   in button scope, and a </p> with no <p> in button scope makes an empty
   <p>. *)

ButtonScopeMarkers ==
    {"applet", "caption", "html", "table", "td", "th", "marquee", "object",
     "template", "button"}

\* The "special" elements among the model's tags: an end tag does not look
\* for its element past one of them.
SpecialTags ==
    {"p", "div", "table", "button", "img", "source", "object", "script",
     "ul", "ol", "li", "br", "hr", "blockquote", "pre"}

EmptyDom == [n |-> 0, tag |-> <<>>, attrs |-> <<>>, text |-> <<>>,
             kids |-> [i \in {0} |-> <<>>]]

\* Creates a node as the last child of parent
AppendNode(d, parent, tag, attrs, text) ==
    LET x == d.n + 1
    IN  [n |-> x,
         tag |-> Append(d.tag, tag),
         attrs |-> Append(d.attrs, attrs),
         text |-> Append(d.text, text),
         kids |-> [i \in 0..x |->
                     IF i = x THEN <<>>
                     ELSE IF i = parent THEN Append(d.kids[i], x)
                     ELSE d.kids[i]]]

CurrentNode(stack) == IF stack = <<>> THEN 0 ELSE stack[Len(stack)]

RECURSIVE HasInButtonScope(_, _, _)
HasInButtonScope(d, stack, tag) ==
    IF stack = <<>> THEN FALSE
    ELSE LET t == d.tag[stack[Len(stack)]]
         IN  IF t = tag THEN TRUE
             ELSE IF t \in ButtonScopeMarkers THEN FALSE
             ELSE HasInButtonScope(d, SubSeq(stack, 1, Len(stack) - 1), tag)

\* Pops the stack of open elements up to and including the topmost tag
RECURSIVE PopThrough(_, _, _)
PopThrough(d, stack, tag) ==
    IF stack = <<>> THEN <<>>
    ELSE IF d.tag[stack[Len(stack)]] = tag THEN SubSeq(stack, 1, Len(stack) - 1)
    ELSE PopThrough(d, SubSeq(stack, 1, Len(stack) - 1), tag)

\* "Any other end tag": whether the walk down the stack meets the element
\* before it meets a special element
RECURSIVE EndTagMatches(_, _, _)
EndTagMatches(d, stack, tag) ==
    IF stack = <<>> THEN FALSE
    ELSE LET t == d.tag[stack[Len(stack)]]
         IN  IF t = tag THEN TRUE
             ELSE IF t \in SpecialTags THEN FALSE
             ELSE EndTagMatches(d, SubSeq(stack, 1, Len(stack) - 1), tag)

\* Start tags that first close a <p> open in button scope
ClosesParagraph == {"p", "ul", "ol", "li", "pre", "div", "blockquote", "figure", "hr"}

\* End tags that close their element if it is in scope, with what is open
\* inside it
BlockEndTags == {"ul", "ol", "pre", "div", "blockquote", "figure"}

ScopeMarkers == ButtonScopeMarkers \ {"button"}

RECURSIVE HasInScope(_, _, _, _)
HasInScope(d, stack, tag, markers) ==
    IF stack = <<>> THEN FALSE
    ELSE LET t == d.tag[stack[Len(stack)]]
         IN  IF t = tag THEN TRUE
             ELSE IF t \in markers THEN FALSE
             ELSE HasInScope(d, SubSeq(stack, 1, Len(stack) - 1), tag, markers)

\* A <li> start tag: walking down the stack, an open li is met before a
\* special element other than div and p
RECURSIVE HasOpenItem(_, _)
HasOpenItem(d, stack) ==
    IF stack = <<>> THEN FALSE
    ELSE LET t == d.tag[stack[Len(stack)]]
         IN  IF t = "li" THEN TRUE
             ELSE IF t \in SpecialTags \ {"div", "p"} THEN FALSE
             ELSE HasOpenItem(d, SubSeq(stack, 1, Len(stack) - 1))

ParseStep(st, tok) ==
    LET d == st.d
        stack == st.stack
        cur == CurrentNode(stack)
        kind == tok[1]
        name == tok[2]
    IN  IF kind = "text"
        THEN LET ks == d.kids[cur]
             IN  IF ks # <<>> /\ d.tag[ks[Len(ks)]] = TextTag
                 THEN [st EXCEPT !.d.text[ks[Len(ks)]] = Append(@, name)]
                 ELSE [st EXCEPT !.d = AppendNode(d, cur, TextTag, <<>>, <<name>>)]
        ELSE IF kind = "open"
        THEN LET stack0 == IF name = "li" /\ HasOpenItem(d, stack)
                           THEN PopThrough(d, stack, "li") ELSE stack
                 stack1 == IF name \in ClosesParagraph /\ HasInButtonScope(d, stack0, "p")
                           THEN PopThrough(d, stack0, "p") ELSE stack0
                 d1 == AppendNode(d, CurrentNode(stack1), name, tok[3], <<>>)
             IN  [d |-> d1,
                  stack |-> IF name \in VoidTags THEN stack1 ELSE Append(stack1, d1.n)]
        ELSE IF name = "p"
        THEN IF HasInButtonScope(d, stack, "p")
             THEN [st EXCEPT !.stack = PopThrough(d, stack, "p")]
             ELSE [st EXCEPT !.d = AppendNode(d, cur, "p", <<>>, <<>>)]
        ELSE IF name \in BlockEndTags
        THEN IF HasInScope(d, stack, name, ScopeMarkers)
             THEN [st EXCEPT !.stack = PopThrough(d, stack, name)]
             ELSE st
        ELSE IF name = "li"
        THEN IF HasInScope(d, stack, "li", ScopeMarkers \cup {"ol", "ul"})
             THEN [st EXCEPT !.stack = PopThrough(d, stack, "li")]
             ELSE st
        ELSE IF EndTagMatches(d, stack, name)
             THEN [st EXCEPT !.stack = PopThrough(d, stack, name)]
             ELSE st

\* The tokens in order, each on the state the ones before it left
RECURSIVE ParseTokens(_, _)
ParseTokens(st, toks) ==
    IF toks = <<>> THEN st
    ELSE IF Len(toks) = 1 THEN ParseStep(st, toks[1])
    ELSE LET h == Len(toks) \div 2
             mid == ParseTokens(st, SubSeq(toks, 1, h))
         IN  \* the test only makes mid be computed before the second half
             IF mid.d.n >= 0
             THEN ParseTokens(mid, SubSeq(toks, h + 1, Len(toks)))
             ELSE mid

ParseHtml(toks) == ParseTokens([d |-> EmptyDom, stack |-> <<>>], toks).d

-----------------------------------------------------------------------------
(* Markup as text.  A string is a sequence of pieces of text: every
   punctuation character the regular expressions or the HTML tokenizer look
   at ("[", "]", "<", ">", "/", "=", the quotes, the space, the newline, ":",
   "*") is a piece of its own, a macro placeholder is one piece, and a word
   is one piece, except that a word which begins with one of the names the
   block test looks for is cut after that name ("pre" is "p", "re"; "h1" is
   "h", "1").  With that cut every literal of every regular expression
   starts and ends at piece boundaries. *)

Newline == "\n"

DoubleQuote == "\""

Digits == {"0", "1", "2", "3", "4", "5", "6", "7", "8", "9"}

\* The i flag, on the words of the input family
Lower(c) ==
    IF c = "B" THEN "b"
    ELSE IF c = "I" THEN "i"
    ELSE IF c = "U" THEN "u"
    ELSE IF c = "IMG" THEN "img"
    ELSE c

Min(S) == CHOOSE x \in S : \A y \in S : x <= y

\* The literal lit stands at position i of s
MatchesExact(s, i, lit) ==
    /\ i + Len(lit) - 1 <= Len(s)
    /\ \A k \in 1..Len(lit) : s[i + k - 1] = lit[k]

\* The same under the i flag (lit is lower case)
MatchesAt(s, i, lit) ==
    /\ i + Len(lit) - 1 <= Len(s)
    /\ \A k \in 1..Len(lit) : Lower(s[i + k - 1]) = lit[k]

\* The positions of s where the literal stands
Matches(s, lit) == {i \in 1..Len(s) : MatchesExact(s, i, lit)}

\* String.prototype.replace(/lit/g, rep), match by match from the left
ReplaceFirstOnly(s, lit, rep) ==
    IF Matches(s, lit) = {} THEN s
    ELSE LET i == Min(Matches(s, lit))
         IN  SubSeq(s, 1, i - 1) \o rep \o SubSeq(s, i + Len(lit), Len(s))

RECURSIVE ReplaceLiteral(_, _, _)
ReplaceLiteral(s, lit, rep) ==
    IF Matches(s, lit) = {} THEN s
    ELSE LET i == Min(Matches(s, lit))
         IN  SubSeq(s, 1, i - 1) \o rep
             \o ReplaceLiteral(SubSeq(s, i + Len(lit), Len(s)), lit, rep)

\* Where the lazy group (.*?) that starts at from ends: the first position
\* at or after from where close stands, with no newline in the group unless
\* the s flag is set; 0 when the expression does not match.
GroupEnd(s, from, close, dotAll) ==
    LET C == {j \in from..Len(s) :
                 /\ MatchesAt(s, j, close)
                 /\ dotAll \/ \A k \in from..(j - 1) : s[k] # Newline}
    IN  IF C = {} THEN 0 ELSE Min(C)

\* replace(/open(.*?)close/gi, pre + "$1" + post), with the s flag if dotAll,
\* match by match from the left
RECURSIVE ReplacePair(_, _, _, _, _, _)
ReplacePair(s, open, close, dotAll, pre, post) ==
    LET M == {i \in 1..Len(s) :
                 /\ MatchesAt(s, i, open)
                 /\ GroupEnd(s, i + Len(open), close, dotAll) # 0}
    IN  IF M = {} THEN s
        ELSE LET i == Min(M)
                 j == GroupEnd(s, i + Len(open), close, dotAll)
             IN  SubSeq(s, 1, i - 1)
                 \o pre \o SubSeq(s, i + Len(open), j - 1) \o post
                 \o ReplacePair(SubSeq(s, j + Len(close), Len(s)),
                                open, close, dotAll, pre, post)

BBOpen(name) == <<"[", name, "]">>

BBClose(name) == <<"[", "/", name, "]">>

TagOpen(name) == <<"<", name, ">">>

TagClose(name) == <<"<", "/", name, ">">>

\* /\[url=(.*?)\](.*?)\[\/url\]/gi at position i: where the first group and
\* the second group end (0: no match).  Neither group takes a newline, so
\* a first group that runs past the first "]" cannot match where the
\* shortest one does not.
UrlGroup1End(s, i) ==
    IF MatchesAt(s, i, <<"[", "url", "=">>) THEN GroupEnd(s, i + 3, <<"]">>, FALSE)
    ELSE 0

UrlGroup2End(s, i) ==
    IF UrlGroup1End(s, i) = 0 THEN 0
    ELSE GroupEnd(s, UrlGroup1End(s, i) + 1, BBClose("url"), FALSE)

\* replace(/\[url=(.*?)\](.*?)\[\/url\]/gi, '<a href="$1">$2</a>')
RECURSIVE ReplaceUrl(_)
ReplaceUrl(s) ==
    LET M == {i \in 1..Len(s) : UrlGroup2End(s, i) # 0}
    IN  IF M = {} THEN s
        ELSE LET i == Min(M)
                 j1 == UrlGroup1End(s, i)
                 j2 == UrlGroup2End(s, i)
             IN  SubSeq(s, 1, i - 1)
                 \o <<"<", "a", " ", "href", "=", DoubleQuote>>
                 \o SubSeq(s, i + 3, j1 - 1)
                 \o <<DoubleQuote, ">">> \o SubSeq(s, j1 + 1, j2 - 1)
                 \o TagClose("a")
                 \o ReplaceUrl(SubSeq(s, j2 + 4, Len(s)))

\* replace(/\[\*\](.*?)(?=(\[\*\]|$))/gis, '<li>$1</li>'): the item runs to
\* the next [*] or, there being no m flag, to the end of the string
RECURSIVE ReplaceItems(_)
ReplaceItems(s) ==
    LET M == {i \in 1..Len(s) : MatchesAt(s, i, BBOpen("*"))}
    IN  IF M = {} THEN s
        ELSE LET i == Min(M)
                 C == {j \in M : j > i}
                 j == IF C = {} THEN Len(s) + 1 ELSE Min(C)
             IN  SubSeq(s, 1, i - 1)
                 \o TagOpen("li") \o SubSeq(s, i + 3, j - 1) \o TagClose("li")
                 \o ReplaceItems(SubSeq(s, j, Len(s)))

ClanImages ==
    <<"https", ":", "/", "/", "clan.cloudflare.steamstatic.com", "/", "images">>

AppImages ==
    <<"https", ":", "/", "/", "cdn.cloudflare.steamstatic.com", "/", "steam", "/", "apps">>

\* The two macro replacements and the two protocol replacements
ExpandMacrosFirstOnly(s) ==
    LET s1 == ReplaceFirstOnly(s, <<"{STEAM_CLAN_IMAGE}">>, ClanImages)
        s2 == ReplaceFirstOnly(s1, <<"{STEAM_APP_IMAGE}">>, AppImages)
    IN  s2

ExpandMacros(s) ==
    LET s1 == ReplaceLiteral(s, <<"{STEAM_CLAN_IMAGE}">>, ClanImages)
        s2 == ReplaceLiteral(s1, <<"{STEAM_APP_IMAGE}">>, AppImages)
    IN  s2

ExpandProtocol(s) ==
    LET s1 == ReplaceLiteral(s, <<"src", "=", DoubleQuote, "/", "/">>,
                             <<"src", "=", DoubleQuote, "https", ":", "/", "/">>)
        s2 == ReplaceLiteral(s1, <<"href", "=", DoubleQuote, "/", "/">>,
                             <<"href", "=", DoubleQuote, "https", ":", "/", "/">>)
    IN  s2

\* The BBCode replacements, in the order of the code
ExpandBBCode(s) ==
    LET s1 == ReplacePair(s, BBOpen("img"), BBClose("img"), FALSE,
                          <<"<", "img", " ", "src", "=", DoubleQuote>>,
                          <<DoubleQuote, " ", "/", ">">>)
        s2 == ReplaceUrl(s1)
        s3 == ReplacePair(s2, BBOpen("b"), BBClose("b"), FALSE,
                          TagOpen("strong"), TagClose("strong"))
        s4 == ReplacePair(s3, BBOpen("i"), BBClose("i"), FALSE,
                          TagOpen("em"), TagClose("em"))
        s5 == ReplacePair(s4, BBOpen("u"), BBClose("u"), FALSE,
                          TagOpen("u"), TagClose("u"))
        s6 == ReplacePair(s5, BBOpen("s"), BBClose("s"), FALSE,
                          TagOpen("s"), TagClose("s"))
        s7 == ReplacePair(s6, BBOpen("list"), BBClose("list"), TRUE,
                          TagOpen("ul"), TagClose("ul"))
    IN  ReplaceItems(s7)

\* The names of /<(?:p|br|div|img|ul|ol|h\d|blockquote|table|figure)/i
BlockNames ==
    {"p", "br", "div", "img", "ul", "ol", "blockquote", "table", "figure"}

\* The test of that expression: "<" and then text that begins with a name
HasBlockTag(s) ==
    \E i \in 1..(Len(s) - 1) :
        /\ s[i] = "<"
        /\ \/ Lower(s[i + 1]) \in BlockNames
           \/ /\ Lower(s[i + 1]) = "h"
              /\ i + 2 <= Len(s)
              /\ s[i + 2] \in Digits

LineBreak == <<"<", "br", " ", "/", ">">>

NewlinesToBreaks(s) ==
    IF ~HasBlockTag(s) THEN ReplaceLiteral(s, <<Newline>>, LineBreak) ELSE s

\* A JavaScript value handed in as html: a string, null, undefined, or a
\* value of another type (the feed is JSON; the type annotation is erased).
Str(chars) == [type |-> "string", chars |-> chars]

NotAString(type) == [type |-> type, chars |-> <<>>]

\* html ?? ""
OrEmpty(html) == IF html.type \in {"null", "undefined"} THEN Str(<<>>) ELSE html

Returned(value) == [thrown |-> FALSE, value |-> value]

Thrown == [thrown |-> TRUE, value |-> <<>>]

\* preprocessSteamNewsHtml of the news modal.  A value that is not a string
\* has no replace method: the first call throws a TypeError.
preprocessSteamNewsHtml(html) ==
    LET processed == OrEmpty(html)
    IN  IF processed.type # "string" THEN Thrown
        ELSE Returned(NewlinesToBreaks(ExpandBBCode(ExpandProtocol(
                          ExpandMacros(processed.chars)))))

\* preprocessSteamNewsHtml of the news card: macros and protocol only
cardPreprocessSteamNewsHtml(html) ==
    LET processed == OrEmpty(html)
    IN  IF processed.type # "string" THEN Thrown
        ELSE Returned(ExpandProtocol(ExpandMacros(processed.chars)))

-----------------------------------------------------------------------------
(* The HTML tokenizer, from text to the tokens the tree builder takes.  The
   input family has no script, style or comment, and no character
   reference. *)

TagPunctuation ==
    {"<", ">", "/", "=", " ", Newline, DoubleQuote, "'", "[", "]", ":", "*"}

\* A piece that begins with an ASCII letter
IsLetters(c) ==
    c \notin TagPunctuation \cup Digits \cup {"{STEAM_CLAN_IMAGE}", "{STEAM_APP_IMAGE}"}

RECURSIVE Join(_)
Join(cs) == IF cs = <<>> THEN "" ELSE Lower(Head(cs)) \o Join(Tail(cs))

\* The first position at or after i of a piece in stops; Len(s) + 1 if none
FirstOf(s, i, stops) ==
    LET C == {j \in i..Len(s) : s[j] \in stops}
    IN  IF C = {} THEN Len(s) + 1 ELSE Min(C)

\* The attributes of a tag from position i, and the position after its ">"
\* (0: the text ends inside the tag, which is then dropped)
RECURSIVE LexAttrs(_, _, _)
LexAttrs(s, i, attrs) ==
    IF i > Len(s) THEN [attrs |-> attrs, next |-> 0]
    ELSE IF s[i] = ">" THEN [attrs |-> attrs, next |-> i + 1]
    ELSE IF s[i] \in {" ", Newline, "/"} THEN LexAttrs(s, i + 1, attrs)
    ELSE LET e == FirstOf(s, i + 1, {" ", Newline, "/", ">", "="})
             name == Join(SubSeq(s, i, e - 1))
             known == \E k \in 1..Len(attrs) : attrs[k][1] = name
             With(v) == IF known THEN attrs ELSE Append(attrs, <<name, v>>)
         IN  IF e > Len(s) \/ s[e] # "=" THEN LexAttrs(s, e, With(<<>>))
             ELSE IF e + 1 <= Len(s) /\ s[e + 1] \in {DoubleQuote, "'"}
             THEN LET q == FirstOf(s, e + 2, {s[e + 1]})
                  IN  IF q > Len(s) THEN [attrs |-> attrs, next |-> 0]
                      ELSE LexAttrs(s, q + 1, With(SubSeq(s, e + 2, q - 1)))
             ELSE LET u == FirstOf(s, e + 1, {" ", Newline, ">"})
                  IN  LexAttrs(s, u, With(SubSeq(s, e + 1, u - 1)))

\* A tag opens at position i: "<" or "</" and a letter
TagOpensAt(s, i) ==
    /\ s[i] = "<"
    /\ \/ i + 1 <= Len(s) /\ IsLetters(s[i + 1])
       \/ i + 2 <= Len(s) /\ s[i + 1] = "/" /\ IsLetters(s[i + 2])

TextTokens(s) == [k \in 1..Len(s) |-> <<"text", s[k], <<>>>>]

\* Tag by tag from the left; what stands before a tag is text
RECURSIVE Tokenize(_)
Tokenize(s) ==
    LET T == {i \in 1..Len(s) : TagOpensAt(s, i)}
    IN  IF T = {} THEN TextTokens(s)
        ELSE LET i == Min(T)
                 closing == s[i + 1] = "/"
                 n == IF closing THEN i + 2 ELSE i + 1
                 e == FirstOf(s, n + 1, {" ", Newline, "/", ">"})
                 t == LexAttrs(s, e, <<>>)
             IN  TextTokens(SubSeq(s, 1, i - 1))
                 \o (IF t.next = 0 THEN <<>>
                     ELSE <<<<IF closing THEN "close" ELSE "open",
                              Join(SubSeq(s, n, e - 1)),
                              IF closing THEN <<>> ELSE t.attrs>>>>
                          \o Tokenize(SubSeq(s, t.next, Len(s))))

\* container.innerHTML = text
ParseText(s) == ParseHtml(Tokenize(s))

-----------------------------------------------------------------------------
(* The news card: extractFirstImageSrc and the cover it falls back to.  An
   optional string (string | null | undefined) is <<>> when it is null or
   undefined and <<v>> when it is the string v. *)

Null == <<>>

Some(v) == <<v>>

\* a || b
Truthy(a) == a # Null /\ a[1] # <<>>

OrElse(a, b) == IF Truthy(a) THEN a ELSE b

\* Whatever throws inside the outer try is caught and gives null.
extractFirstImageSrc(html) ==
    LET pre == cardPreprocessSteamNewsHtml(html)
    IN  IF pre.thrown THEN Null
        ELSE LET div == ParseText(pre.value)
                 imgs == QueryAll(div, 0, {"img"})
             IN  IF imgs = <<>> THEN Null
                 ELSE LET src == AttrOrProp(div, imgs[1], "src")
                      IN  IF UrlProtocol(src) \in {"http", "https"}
                          THEN Some(src) ELSE Null

\* const newsCover = extractFirstImageSrc(newsItem.contents)
\*     || entry.libraryImageUrl || entry.coverImageUrl || null
newsCoverCoverFirst(html, e) ==
    OrElse(OrElse(OrElse(extractFirstImageSrc(html), e.coverImageUrl),
                  e.libraryImageUrl), Null)

newsCoverOf(html, e) ==
    OrElse(OrElse(OrElse(extractFirstImageSrc(html), e.libraryImageUrl),
                  e.coverImageUrl), Null)

-----------------------------------------------------------------------------
(* The inputs: the DOMs the parser builds for news markup of at most
   MaxNodes nodes.  Nodes are numbered in document order, par[i] is the
   parent of node i (0: the container). *)

UrlHttps    == <<"https", ":", "/", "/", "x.test", "/", "a.png">>
UrlHttp     == <<"http", ":", "/", "/", "x.test">>
UrlProtoRel == <<"/", "/", "x.test", "/", "a.png">>
UrlRelative == <<"/", "local", "/", "path.png">>
UrlScript   == <<"javascript", ":", "alert(1)">>
UrlData     == <<"data", ":", "image", "/", "png">>
UrlPadded   == <<" ">> \o UrlHttps
UrlNoHost   == <<"https", ":", "/", "/">>

UrlFile     == <<"file", ":", "/", "/", "/", "etc", "/", "passwd">>
UrlVbscript == <<"vbscript", ":", "msgbox(1)">>

UrlValues ==
    {UrlHttps, UrlHttp, UrlProtoRel, UrlRelative, UrlScript, UrlData,
     UrlPadded, UrlNoHost, <<>>}

\* The values the gate is put to on a <source>
GateValues == UrlValues \cup {UrlFile, UrlVbscript}

Label(tag, attrs) == [tag |-> tag, attrs |-> attrs, text |-> <<>>]

TextLabel == [tag |-> TextTag, attrs |-> <<>>, text |-> <<"x">>]

\* The family of nested markup: wrappers, blocked elements, formatting
Labels ==
    { TextLabel,
      Label("b", <<<<"onclick", <<"alert(1)">>>>>>),
      Label("p", <<>>),
      Label("a", <<<<"href", UrlHttps>>, <<"target", <<"_self">>>>>>),
      Label("a", <<<<"href", UrlScript>>, <<"rel", <<"opener">>>>>>),
      Label("a", <<>>),
      Label("img", <<<<"src", UrlHttps>>, <<"style", <<"width:1px">>>>>>),
      Label("table", <<<<"style", <<"width:1px">>>>>>),
      Label("font", <<<<"color", <<"red">>>>>>),
      Label("button", <<>>),
      Label("script", <<>>),
      Label("object", <<>>) }

\* The family of links and media: every kind of URL on a, img, video, source
UrlLabels ==
    { TextLabel,
      Label("b", <<<<"onclick", <<"alert(1)">>>>>>),
      Label("font", <<<<"color", <<"red">>>>>>),
      Label("table", <<<<"style", <<"width:1px">>>>, <<"border", <<"1">>>>>>),
      Label("a", <<>>), Label("img", <<>>), Label("video", <<>>), Label("source", <<>>),
      Label("a", <<<<"href", UrlHttps>>, <<"target", <<"_self">>>>, <<"rel", <<"opener">>>>>>),
      Label("img", <<<<"src", UrlRelative>>, <<"loading", <<"eager">>>>, <<"onerror", <<"alert(1)">>>>>>),
      Label("video", <<<<"controls", <<"false">>>>, <<"src", UrlScript>>>>) }
    \cup {Label("a", <<<<"href", u>>>>) : u \in UrlValues}
    \cup {Label("img", <<<<"src", u>>>>) : u \in UrlValues}
    \cup {Label("video", <<<<"src", u>>>>) : u \in {UrlHttps, UrlProtoRel, UrlRelative}}
    \cup {Label("source", <<<<"src", u>>>>) : u \in GateValues}

\* Tags whose element the parser gives no child here: text, void elements,
\* and a table, whose children would be table sections.
LeafTags == {TextTag, "img", "source", "table"}

RECURSIVE Ancestors(_, _)
Ancestors(par, i) ==
    IF par[i] = 0 THEN {} ELSE {par[i]} \cup Ancestors(par, par[i])

\* par numbers a forest in document order
DocumentOrder(n, par) ==
    \A i \in 1..n :
        /\ par[i] < i
        /\ i > 1 => par[i] \in ({0, i - 1} \cup Ancestors(par, i - 1))

\* The ancestors of i strictly below its ancestor a
Between(par, i, a) == {x \in Ancestors(par, i) : a \in Ancestors(par, x)}

\* The tree is one the HTML parser produces
ParserProduces(n, par, lab) ==
    /\ \A i \in 1..n : par[i] # 0 => lab[par[i]].tag \notin LeafTags
    \* script holds raw text only
    /\ \A i \in 1..n : par[i] # 0 /\ lab[par[i]].tag = "script" => lab[i].tag = TextTag
    \* adjacent characters are one text node
    /\ \A i, j \in 1..n :
          (i < j /\ par[i] = par[j] /\ lab[i].tag = TextTag /\ lab[j].tag = TextTag)
              => \E k \in (i + 1)..(j - 1) : par[k] = par[i]
    \* a <p> start tag closes a <p> open in button scope
    /\ \A i \in 1..n : \A a \in Ancestors(par, i) :
          (lab[i].tag = "p" /\ lab[a].tag = "p")
              => \E x \in Between(par, i, a) : lab[x].tag \in ButtonScopeMarkers
    \* an <a> or <button> start tag closes the one that is open
    /\ \A i \in 1..n : \A a \in Ancestors(par, i) :
          lab[i].tag \in {"a", "button"} => lab[a].tag # lab[i].tag

\* Left out of the family: a table below a <p>, and formatting elements
\* between two nested <p> (the tree builder would rebuild them).
InFamily(n, par, lab) ==
    /\ \A i \in 1..n : \A a \in Ancestors(par, i) :
          lab[i].tag = "table" => lab[a].tag # "p"
    /\ \A i \in 1..n : \A a \in Ancestors(par, i) :
          (lab[i].tag = "p" /\ lab[a].tag = "p")
              => \A x \in Between(par, i, a) : lab[x].tag \notin {"a", "b"}

BuildDom(n, par, lab) ==
    [n |-> n,
     tag |-> [i \in 1..n |-> lab[i].tag],
     attrs |-> [i \in 1..n |-> lab[i].attrs],
     text |-> [i \in 1..n |-> lab[i].text],
     kids |-> [p \in 0..n |-> SortedSeq({i \in 1..n : par[i] = p})]]

-----------------------------------------------------------------------------
(* The inputs of the news card and the news modal: contents put together
   from at most MaxPieces pieces, or a value that is not a string, and the
   entry's two images. *)

Bold == BBOpen("b") \o <<"x">> \o BBClose("b")

BoldTwoLines == BBOpen("b") \o <<"x", Newline, "y">> \o BBClose("b")

\* [I][u][s]x[/s][/U][/i]
Styles ==
    BBOpen("I") \o BBOpen("u") \o BBOpen("s") \o <<"x">>
    \o BBClose("s") \o BBClose("U") \o BBClose("i")

ImgCode(u) == BBOpen("img") \o u \o BBClose("img")

UrlCode == <<"[", "url", "=">> \o UrlHttps \o <<"]", "here">> \o BBClose("url")

ListCode ==
    BBOpen("list") \o BBOpen("*") \o <<"a">> \o BBOpen("*") \o <<"b">>
    \o BBClose("list")

ClanImage == <<"{STEAM_CLAN_IMAGE}", "/", "42", "/", "foo.jpg">>

AppImage == <<"{STEAM_APP_IMAGE}", "/", "1", "/", "header.jpg">>

Paragraph == TagOpen("p") \o <<"x">> \o TagClose("p")

Preformatted ==
    <<"<", "p", "re", ">", "x", Newline, "y", "<", "/", "p", "re", ">">>

ImgTag(quote, u) == <<"<", "img", " ", "src", "=", quote>> \o u \o <<quote, ">">>

NewsPieces ==
    { <<"x">>, <<Newline>>,
      Bold, BoldTwoLines, BBOpen("b"), BBClose("i"), Styles,
      ImgCode(ClanImage), UrlCode, ListCode,
      Paragraph, Preformatted, TagOpen("img"),
      ImgTag(DoubleQuote, AppImage), ImgTag(DoubleQuote, UrlProtoRel),
      ImgTag(DoubleQuote, UrlRelative), ImgTag("'", UrlProtoRel),
      ImgTag(DoubleQuote, UrlPadded) }

LibraryUrl == <<"https", ":", "/", "/", "cdn.test", "/", "library.jpg">>

CoverUrl == <<"https", ":", "/", "/", "cdn.test", "/", "cover.jpg">>

Entry(library, cover) == [libraryImageUrl |-> library, coverImageUrl |-> cover]

Entries ==
    { Entry(Null, Null), Entry(Null, Some(CoverUrl)),
      Entry(Some(<<>>), Some(CoverUrl)), Entry(Some(LibraryUrl), Some(CoverUrl)) }

NoEntry == [libraryImageUrl |-> Null, coverImageUrl |-> Null]

-----------------------------------------------------------------------------
(* The state machine: a news item's markup has been parsed into the
   container (Init); Sanitize is one call of sanitizeNewsHtml; Resanitize is
   a second call on the markup the first one returned. *)

\* The forests of n nodes
Shapes(n) == {par \in [1..n -> 0..n] : DocumentOrder(n, par)}

\* The news service has not been asked anything
ServiceIdle ==
    /\ games = <<>>
    /\ steamApi = <<>>
    /\ language = "en"
    /\ now = 0
    /\ newsCache = Null
    /\ calls = <<>>
    /\ roundLog = <<>>

\* No collection, no collection handler running
StoreIdle ==
    /\ collections = <<>>
    /\ ops = <<>>

BackendIdle == ServiceIdle /\ StoreIdle

\* No news item in the renderer
RendererIdle ==
    /\ dom0 = EmptyDom
    /\ dom = EmptyDom
    /\ pc = "item"
    /\ out1 = <<>>
    /\ out = <<>>
    /\ contents = Str(<<>>)
    /\ entry = NoEntry
    /\ rendered = FALSE
    /\ newsCover = Null
    /\ preprocessed = Returned(<<>>)

InitOf(labels, maxn) ==
    /\ \E n \in 0..maxn : \E par \in Shapes(n) : \E lab \in [1..n -> labels] :
          /\ ParserProduces(n, par, lab)
          /\ InFamily(n, par, lab)
          /\ dom0 = BuildDom(n, par, lab)
    /\ dom = dom0
    /\ pc = "parsed"
    /\ out1 = <<>>
    /\ out = <<>>
    /\ contents = Str(<<>>)
    /\ entry = NoEntry
    /\ rendered = FALSE
    /\ newsCover = Null
    /\ preprocessed = Returned(<<>>)
    /\ BackendIdle

Init == InitOf(Labels, MaxNodes)

InitUrls == InitOf(UrlLabels, MaxUrlNodes)

Sanitize ==
    /\ pc = "parsed"
    /\ dom' = SanitizeDom(dom)
    /\ out' = Serialize(dom')
    /\ out1' = out'
    /\ pc' = "sanitized"
    /\ UNCHANGED <<dom0, news, backend>>

Resanitize ==
    /\ pc = "sanitized"
    /\ dom' = SanitizeDom(ParseHtml(out))
    /\ out' = Serialize(dom')
    /\ pc' = "resanitized"
    /\ UNCHANGED <<dom0, out1, news, backend>>

Next == Sanitize \/ Resanitize

Spec == Init /\ [][Next]_vars

SpecUrls == InitUrls /\ [][Next]_vars

-----------------------------------------------------------------------------
(* The news section: a news item has arrived (InitNews); RenderCard is one
   render of its NewsCard; SanitizedHtml is the memo of the SteamNewsModal
   that a click on the card opens, preprocessSteamNewsHtml and then
   sanitizeNewsHtml.  A
   TypeError in the memo leaves the modal without markup (pc = "thrown"). *)

InitNews ==
    /\ \/ \E k \in 0..MaxPieces : \E ps \in [1..k -> NewsPieces] :
              contents = Str(Concat(ps))
       \/ \E t \in {"null", "undefined", "number", "object"} :
              contents = NotAString(t)
    /\ entry \in Entries
    /\ rendered = FALSE
    /\ newsCover = Null
    /\ preprocessed = Returned(<<>>)
    /\ dom0 = EmptyDom
    /\ dom = EmptyDom
    /\ pc = "item"
    /\ out1 = <<>>
    /\ out = <<>>
    /\ BackendIdle

RenderCard ==
    /\ ~rendered
    /\ rendered' = TRUE
    /\ newsCover' = newsCoverOf(contents, entry)
    /\ UNCHANGED <<dom0, dom, pc, out1, out, contents, entry, preprocessed, backend>>

SanitizedHtml ==
    /\ rendered
    /\ pc = "item"
    /\ preprocessed' = preprocessSteamNewsHtml(contents)
    /\ IF preprocessed'.thrown
       THEN /\ pc' = "thrown"
            /\ UNCHANGED <<dom0, dom, out1, out>>
       ELSE /\ dom0' = ParseText(preprocessed'.value)
            /\ dom' = SanitizeDom(dom0')
            /\ out' = Serialize(dom')
            /\ out1' = out'
            /\ pc' = "sanitized"
    /\ UNCHANGED <<contents, entry, rendered, newsCover, backend>>

NextNews == RenderCard \/ SanitizedHtml

SpecNews == InitNews /\ [][NextNews]_vars

-----------------------------------------------------------------------------
(* Properties.  dom0 is the parsed input, dom the tree a call left in the
   container, out its markup.  Node numbers are those of dom0 while
   pc = "sanitized". *)

Sanitized == pc = "sanitized"

\* The nodes still in the container
Final == Descendants(dom, 0)

FinalElements == {x \in Final : IsElement(dom, x)}

\* x is, or lies inside, a hard-blocked element of the input
InBlocked0(x) ==
    \/ dom0.tag[x] \in BlockedTags
    \/ \E a \in Nodes(dom0) : dom0.tag[a] \in BlockedTags /\ x \in Descendants(dom0, a)

\* x is an element of the input that is neither hard-blocked nor allow-listed
Wrapper0(x) ==
    /\ IsElement(dom0, x)
    /\ dom0.tag[x] \notin allowedTags
    /\ dom0.tag[x] \notin BlockedTags

OpenTags(toks) == {toks[i][2] : i \in {j \in 1..Len(toks) : toks[j][1] = "open"}}

\* C1: no element with a tag outside the allow-list is in the tree that
\* sanitizeNewsHtml serializes, in its markup, or in the tree that markup
\* parses to, whatever the nesting of the input.
C1_NoDisallowedTag ==
    Sanitized =>
        /\ \A x \in FinalElements : dom.tag[x] \in allowedTags
        /\ OpenTags(out) \subseteq allowedTags
        /\ LET r == ParseHtml(out)
           IN  \A x \in Nodes(r) : r.tag[x] \in allowedTags \cup {TextTag}

\* A disallowed element inside an allowed element inside a disallowed one
C1_Witness ==
    /\ Sanitized
    /\ \E x, z, y \in Nodes(dom0) :
          /\ Wrapper0(x) /\ Wrapper0(y)
          /\ z \in Descendants(dom0, x) /\ y \in Descendants(dom0, z)
          /\ dom0.tag[z] \in allowedTags
          /\ z \in Final

\* C2: a hard-blocked element goes with its whole subtree: none of its
\* nodes, elements or text, is in the output, also when the blocked element
\* sat inside a wrapper that was unwrapped.
C2_BlockedSubtreeGone ==
    Sanitized =>
        /\ \A x \in Nodes(dom0) : InBlocked0(x) => x \notin Final
        /\ OpenTags(out) \cap BlockedTags = {}
        /\ Cardinality({i \in 1..Len(out) : out[i][1] = "text"})
             <= Cardinality({x \in Nodes(dom0) :
                               dom0.tag[x] = TextTag /\ ~InBlocked0(x)})

\* A blocked element with an element or text inside it, inside a wrapper
C2_Witness ==
    /\ Sanitized
    /\ \E w, x, y \in Nodes(dom0) :
          /\ Wrapper0(w)
          /\ x \in Range(dom0.kids[w]) /\ dom0.tag[x] \in BlockedTags
          /\ y \in Range(dom0.kids[x])

\* The attributes sanitizeNewsHtml sets, by tag
PermittedAttrs(tag) ==
    IF tag = "a" THEN {"href", "target", "rel"}
    ELSE IF tag = "img" THEN {"src", "loading"}
    ELSE IF tag = "video" THEN {"src", "controls"}
    ELSE IF tag = "source" THEN {"src"}
    ELSE IF tag = "table" THEN {"border"}
    ELSE {}

ForcedValue(name) ==
    IF name = "target" THEN <<"_blank">>
    ELSE IF name = "rel" THEN <<"noopener noreferrer">>
    ELSE IF name = "loading" THEN <<"lazy">>
    ELSE IF name = "controls" THEN <<"true">>
    ELSE <<"0">>

OnlySanitizerAttrs(d, x) ==
    \A i \in 1..Len(d.attrs[x]) :
        LET name == d.attrs[x][i][1]
        IN  /\ name \in PermittedAttrs(d.tag[x])
            /\ name \notin {"href", "src"} => d.attrs[x][i][2] = ForcedValue(name)

\* C3: every element of the output carries only attributes the sanitizer
\* set: the names its tag may have, with the forced values for target, rel,
\* loading, controls and border, and nothing of the input's own attributes.
C3_OnlySanitizerAttributes ==
    Sanitized => \A x \in FinalElements : OnlySanitizerAttrs(dom, x)

\* A table and a link that came with attributes of their own are in the output
C3_Witness ==
    /\ Sanitized
    /\ \E x, y \in FinalElements :
          /\ dom.tag[x] = "table" /\ dom0.attrs[x] # <<>> /\ HasAttr(dom, x, "border")
          /\ dom.tag[y] = "a" /\ HasAttr(dom0, y, "target")

UrlAttrValues(toks) ==
    UNION {{toks[i][3][k][2] : k \in {j \in 1..Len(toks[i][3]) :
                                        toks[i][3][j][1] \in {"href", "src"}}} :
           i \in {j \in 1..Len(toks) : toks[j][1] = "open"}}

\* C4: every href and src value in the output parses as a URL with scheme
\* http or https.
C4_OnlyHttpUrls ==
    Sanitized => \A v \in UrlAttrValues(out) : UrlProtocol(v) \in {"http", "https"}

\* Links and media with a javascript:, relative and absolute URL went through
C4_Witness ==
    /\ Sanitized
    /\ \E x, y \in Nodes(dom0) :
          /\ x \in Final /\ dom0.tag[x] = "a" /\ HasAttr(dom0, x, "href")
          /\ GetAttr(dom0, x, "href") \in {UrlScript, UrlRelative, UrlData}
          /\ dom0.tag[y] \in {"img", "video", "source"} /\ HasAttr(dom0, y, "src")

\* C5: sanitizing the markup a call returned gives that markup again.
C5_Idempotent == pc = "resanitized" => out = out1

\* The gate of the sanitizer on an attribute value of the input
SafeUrl0(x, name) ==
    /\ HasAttr(dom0, x, name)
    /\ UrlProtocol(absolutizeUrl(GetAttr(dom0, x, name))) \in {"http", "https"}

\* C6: an img whose normalized src is a safe absolute http(s) URL is in the
\* output with exactly src, set to the normalized URL, and loading="lazy".
C6_SafeImgKept ==
    Sanitized =>
        \A x \in Nodes(dom0) :
            (dom0.tag[x] = "img" /\ ~InBlocked0(x) /\ SafeUrl0(x, "src")) =>
                /\ x \in Final
                /\ dom.attrs[x] = << <<"src", absolutizeUrl(GetAttr(dom0, x, "src"))>>,
                                     <<"loading", <<"lazy">>>> >>

\* C7: an img whose src is missing, empty, relative, unparsable or of
\* another scheme is not in the output.
C7_UnsafeImgRemoved ==
    Sanitized =>
        /\ \A x \in Nodes(dom0) :
              (dom0.tag[x] = "img" /\ ~SafeUrl0(x, "src")) => x \notin Final
        /\ ("img" \in OpenTags(out)) =>
              \E x \in Nodes(dom0) : dom0.tag[x] = "img" /\ SafeUrl0(x, "src")

\* An img with a relative src was in a link that stays
C7_Witness ==
    /\ Sanitized
    /\ \E x \in Nodes(dom0) :
          /\ dom0.tag[x] = "img" /\ HasAttr(dom0, x, "src")
          /\ GetAttr(dom0, x, "src") = UrlRelative
          /\ Parent(dom0, x) \in Final
          /\ x \notin Final

\* C8: an a whose normalized href passes the gate is in the output with
\* href set to the normalized URL, target="_blank" and
\* rel="noopener noreferrer", whatever target and rel it came with.
C8_SafeLinkKept ==
    Sanitized =>
        \A x \in Nodes(dom0) :
            (dom0.tag[x] = "a" /\ ~InBlocked0(x) /\ SafeUrl0(x, "href")) =>
                /\ x \in Final
                /\ dom.attrs[x] = << <<"href", absolutizeUrl(GetAttr(dom0, x, "href"))>>,
                                     <<"target", <<"_blank">>>>,
                                     <<"rel", <<"noopener noreferrer">>>> >>

\* What takes the place of child c of a kept element: c itself, the lifted
\* children of an unwrapped c, nothing for a blocked c.  Whether an img or a
\* source stays is its own rule's decision and is read off the output.
RECURSIVE Lift(_)
Lift(c) ==
    LET t == dom0.tag[c]
    IN  IF t = TextTag THEN <<c>>
        ELSE IF t \in BlockedTags THEN <<>>
        ELSE IF t \notin allowedTags
             THEN Concat([i \in 1..Len(dom0.kids[c]) |-> Lift(dom0.kids[c][i])])
        ELSE IF t \in {"img", "source"} THEN (IF c \in Final THEN <<c>> ELSE <<>>)
        ELSE <<c>>

LiftAll(ks) == Concat([i \in 1..Len(ks) |-> Lift(ks[i])])

RECURSIVE Host0(_)
Host0(x) ==
    LET p == Parent(dom0, x)
    IN  IF p = 0 THEN 0 ELSE IF Wrapper0(p) THEN Host0(p) ELSE p

\* C10: an element that is neither blocked nor allow-listed is gone from the
\* output, at any depth of such wrappers; what it held stands where it stood,
\* in order, in the element that held it; and the elements it held are
\* sanitized like any other (allow-listed, attributes stripped).
C10_Unwrap ==
    Sanitized =>
        \A w \in Nodes(dom0) :
            (Wrapper0(w) /\ ~InBlocked0(w)) =>
                /\ w \notin Final
                /\ dom.kids[Host0(w)] = LiftAll(dom0.kids[Host0(w)])
                /\ \A y \in Descendants(dom0, w) \cap FinalElements :
                      /\ dom.tag[y] \in allowedTags
                      /\ OnlySanitizerAttrs(dom, y)

\* A wrapper in a wrapper, holding an element with an attribute:
\* <font color=red><button><b onclick=..></b></button></font>
C10_Witness ==
    /\ Sanitized
    /\ \E w, v, y \in Nodes(dom0) :
          /\ Wrapper0(w) /\ Wrapper0(v)
          /\ v \in Range(dom0.kids[w]) /\ y \in Range(dom0.kids[v])
          /\ dom0.tag[y] = "b" /\ dom0.attrs[y] # <<>>
          /\ y \in Range(dom.kids[0])

-----------------------------------------------------------------------------
(* The URL gate and the media rules *)

\* The values of GateValues that the URL standard parses, once a leading //
\* is made https://, to a URL of scheme http or https: the absolute ones
\* (leading spaces are dropped by the parser) and the protocol-relative one.
\* The others are a relative path, "", a special scheme without a host, and
\* the schemes javascript, data, file and vbscript.
GateAccepts == {UrlHttps, UrlHttp, UrlPadded, UrlProtoRel}

\* x is a <source> with a src inside a <video> of the input: the elements
\* whose src the sanitizer puts to isHttpUrl as it stands in the markup
GatedSource0(x) ==
    /\ dom0.tag[x] = "source"
    /\ HasAttr(dom0, x, "src")
    /\ ~InBlocked0(x)
    /\ \E v \in Nodes(dom0) : dom0.tag[v] = "video" /\ x \in Descendants(dom0, v)

\* C11: isHttpUrl answers true exactly for the values that, after a leading
\* // is rewritten to https://, parse as an http or https URL -- so true for
\* //host/path, false for "", a relative path, an unparsable value and the
\* schemes javascript, data, file, vbscript -- and it never throws: the
\* sanitizer finishes and a <source> in a <video> is kept exactly when its
\* src is such a value.
C11_UrlGate ==
    Sanitized =>
        \A x \in Nodes(dom0) :
            GatedSource0(x) => (x \in Final <=> GetAttr(dom0, x, "src") \in GateAccepts)

\* A protocol-relative source was kept
C11_Witness ==
    /\ Sanitized
    /\ \E x \in Nodes(dom0) :
          GatedSource0(x) /\ GetAttr(dom0, x, "src") = UrlProtoRel /\ x \in Final

\* C18: in the output a video whose own src is present and safe carries
\* that src and controls="true"; each source in it is there with its
\* normalized src, and nothing else, if that src is safe, and is gone
\* otherwise.
C18_VideoAndSources ==
    Sanitized =>
        \A v \in Nodes(dom0) :
            (dom0.tag[v] = "video" /\ ~InBlocked0(v)) =>
                /\ SafeUrl0(v, "src") =>
                      /\ HasAttr(dom, v, "src")
                      /\ GetAttr(dom, v, "src") = absolutizeUrl(GetAttr(dom0, v, "src"))
                      /\ HasAttr(dom, v, "controls")
                      /\ GetAttr(dom, v, "controls") = <<"true">>
                /\ \A x \in Descendants(dom0, v) :
                      dom0.tag[x] = "source" =>
                          IF SafeUrl0(x, "src")
                          THEN /\ x \in Final
                               /\ dom.attrs[x] =
                                     << <<"src", absolutizeUrl(GetAttr(dom0, x, "src"))>> >>
                          ELSE x \notin Final

-----------------------------------------------------------------------------
(* The news card and the preprocessor.  contents is the news item's
   contents, preprocessed what preprocessSteamNewsHtml gave the modal (once
   pc is "sanitized" or "thrown"), newsCover the card's image (once
   rendered). *)

Preprocessed == pc \in {"sanitized", "thrown"}

\* C12: none of preprocessSteamNewsHtml, sanitizeNewsHtml and
\* extractFirstImageSrc throws, whatever the contents: a string, null,
\* undefined or a value of another type; for null and undefined the
\* preprocessor returns the empty string.
C12_NeverThrows ==
    /\ pc # "thrown"
    /\ Preprocessed =>
          /\ ~preprocessed.thrown
          /\ contents.type \in {"null", "undefined"} => preprocessed.value = <<>>

\* The src attribute of img x of tree d, as an optional string
SrcOf(d, x) == IF HasAttr(d, x, "src") THEN Some(GetAttr(d, x, "src")) ELSE Null

\* The img elements the markup of the contents holds, macros expanded and
\* nothing else rewritten (nothing, for contents that are not a string)
ContentsTree ==
    IF contents.type = "string" THEN ParseText(ExpandMacros(contents.chars))
    ELSE EmptyDom

\* What the gate of the sanitizer makes of an optional src: the normalized
\* URL if it passes, null otherwise
Gated(src) ==
    IF src # Null /\ UrlProtocol(absolutizeUrl(src[1])) \in {"http", "https"}
    THEN Some(absolutizeUrl(src[1])) ELSE Null

\* C13: extractFirstImageSrc looks at the first img of the markup only,
\* normalizes its src and puts it to the http/https gate of the sanitizer:
\* the result is that URL if it passes and null if it does not or if there
\* is no img.  (Read off the card of an entry without images of its own.)
C13_FirstImgGated ==
    (rendered /\ entry = NoEntry) =>
        LET imgs == QueryAll(ContentsTree, 0, {"img"})
        IN  newsCover = IF imgs = <<>> THEN Null
                        ELSE Gated(SrcOf(ContentsTree, imgs[1]))

\* The tree extractFirstImageSrc queries
CardTree ==
    IF contents.type = "string"
    THEN ParseText(cardPreprocessSteamNewsHtml(contents).value)
    ELSE EmptyDom

\* The img elements of that tree whose src the extractor's own test accepts
SafeImgs ==
    SelectSeq(QueryAll(CardTree, 0, {"img"}),
              LAMBDA x : /\ HasAttr(CardTree, x, "src")
                         /\ UrlProtocol(GetAttr(CardTree, x, "src")) \in {"http", "https"})

\* C20: if the contents hold an img whose src is a safe absolute http(s)
\* URL, extractFirstImageSrc returns the src of the first such img, also
\* when an img before it has an unsafe src or none.
C20_FirstSafeImg ==
    (rendered /\ entry = NoEntry /\ SafeImgs # <<>>) =>
        newsCover = Some(GetAttr(CardTree, SafeImgs[1], "src"))

\* C17: the card's image is the extracted URL when there is one; otherwise
\* the entry's libraryImageUrl if it is set, else its coverImageUrl if it is
\* set, else none.
C17_CoverFallback ==
    rendered =>
        LET fromContent == extractFirstImageSrc(contents)
        IN  newsCover =
                IF fromContent # Null THEN fromContent
                ELSE IF Truthy(entry.libraryImageUrl) THEN entry.libraryImageUrl
                ELSE IF Truthy(entry.coverImageUrl) THEN entry.coverImageUrl
                ELSE Null

\* Contents without a usable img on an entry with both images, and
\* contents with one
C17_Witness ==
    /\ rendered
    /\ \/ /\ extractFirstImageSrc(contents) = Null
          /\ contents.type = "string"
          /\ QueryAll(ContentsTree, 0, {"img"}) # <<>>
          /\ entry = Entry(Some(LibraryUrl), Some(CoverUrl))
          /\ newsCover = Some(LibraryUrl)
       \/ /\ extractFirstImageSrc(contents) # Null
          /\ entry = Entry(Some(<<>>), Some(CoverUrl))
          /\ newsCover = extractFirstImageSrc(contents)

\* The text the newline step works on
Substituted == ExpandBBCode(ExpandProtocol(ExpandMacros(contents.chars)))

\* The tags the newline rule names
ProseBreakers ==
    {"p", "br", "div", "img", "ul", "ol", "h1", "h2", "h3", "h4", "h5", "h6",
     "blockquote", "table", "figure"}

\* The names of the tags in text s
TagNames(s) ==
    LET toks == Tokenize(s)
    IN  {toks[i][2] : i \in {j \in 1..Len(toks) : toks[j][1] # "text"}}

\* C14: when the text after the macro, protocol and BBCode substitutions has
\* none of the tags p, br, div, img, ul, ol, h1..h6, blockquote, table,
\* figure, every newline becomes <br />; when it has one of them, every
\* newline stays.
C14_NewlineRule ==
    (pc = "sanitized" /\ contents.type = "string") =>
        preprocessed.value =
            IF TagNames(Substituted) \cap ProseBreakers = {}
            THEN ReplaceLiteral(Substituted, <<Newline>>, LineBreak)
            ELSE Substituted

Occurrences(s, lit) == Cardinality(Matches(s, lit))

\* The img start tags of text s whose src is the value u
ImgsWithSrc(s, u) ==
    LET toks == Tokenize(s)
    IN  {i \in 1..Len(toks) :
            /\ toks[i][1] = "open" /\ toks[i][2] = "img"
            /\ toks[i][3] = <<<<"src", u>>>>}

\* C15: each {STEAM_CLAN_IMAGE} and each {STEAM_APP_IMAGE} of the contents
\* is replaced by its URL, none is left, and the replacement comes before
\* the BBCode step: each [img]{STEAM_CLAN_IMAGE}/42/foo.jpg[/img] ends as
\* an img whose src is the expanded URL.
C15_MacrosExpanded ==
    (pc = "sanitized" /\ contents.type = "string") =>
        /\ Occurrences(preprocessed.value, <<"{STEAM_CLAN_IMAGE}">>) = 0
        /\ Occurrences(preprocessed.value, <<"{STEAM_APP_IMAGE}">>) = 0
        /\ Occurrences(preprocessed.value, ClanImages)
              = Occurrences(contents.chars, <<"{STEAM_CLAN_IMAGE}">>)
        /\ Occurrences(preprocessed.value, AppImages)
              = Occurrences(contents.chars, <<"{STEAM_APP_IMAGE}">>)
        /\ Cardinality(ImgsWithSrc(preprocessed.value,
                                   ClanImages \o <<"/", "42", "/", "foo.jpg">>))
              = Occurrences(contents.chars, ImgCode(ClanImage))

\* Two images with a macro in BBCode, or one with an image tag with a macro
C15_Witness ==
    /\ pc = "sanitized"
    /\ \/ Occurrences(contents.chars, ImgCode(ClanImage)) = 2
       \/ /\ Occurrences(contents.chars, ImgCode(ClanImage)) = 1
          /\ Occurrences(contents.chars, <<"{STEAM_APP_IMAGE}">>) = 1

\* The BBCode pairs
PairNames == {"img", "b", "i", "u", "s", "list"}

OpenersOf(s, name) == {i \in 1..Len(s) : MatchesAt(s, i, BBOpen(name))}

ClosersOf(s, name) == {i \in 1..Len(s) : MatchesAt(s, i, BBClose(name))}

\* C16: every BBCode pair is expanded -- no opening tag is left in the
\* output with its closing tag after it -- and a tag without a partner is
\* left as it was: where the contents have no closing (opening) tag of a
\* name, all its opening (closing) tags are still there.
C16_PairsExpanded ==
    (pc = "sanitized" /\ contents.type = "string") =>
        \A name \in PairNames :
            LET s == preprocessed.value
            IN  /\ \A i \in OpenersOf(s, name) : \A j \in ClosersOf(s, name) : j < i
                /\ ClosersOf(contents.chars, name) = {} =>
                      Cardinality(OpenersOf(s, name))
                          = Cardinality(OpenersOf(contents.chars, name))
                /\ OpenersOf(contents.chars, name) = {} =>
                      Cardinality(ClosersOf(s, name))
                          = Cardinality(ClosersOf(contents.chars, name))

\* C19: in the output every <li> is closed before the </ul> that follows
\* it, so an item ends with its list and what stands after the list is in
\* no <li>.
C19_ItemsEndWithList ==
    (pc = "sanitized" /\ contents.type = "string") =>
        LET s == preprocessed.value
            ends == Matches(s, TagClose("li"))
            lists == Matches(s, TagClose("ul"))
        IN  \A i \in Matches(s, TagOpen("li")) :
                \A u \in lists : u > i => \E e \in ends : i < e /\ e < u

-----------------------------------------------------------------------------
(* The card and the modal side by side *)

\* C21: the card's extractor and the sanitizer's gate go by the same rule:
\* for contents whose first img has a src v (as written: protocol-relative,
\* padded with a space, in double or in single quotes), the extractor takes
\* that img exactly when isHttpUrl(absolutizeUrl(v)) is true.
C21_SameUrlRule ==
    (rendered /\ entry = NoEntry /\ contents.type = "string") =>
        LET imgs == QueryAll(ContentsTree, 0, {"img"})
        IN  (imgs # <<>> /\ HasAttr(ContentsTree, imgs[1], "src")) =>
                (newsCover # Null
                   <=> isHttpUrl(absolutizeUrl(GetAttr(ContentsTree, imgs[1], "src"))))

\* The img elements of tree d, with their src
ImgSrcs(d) ==
    LET imgs == QueryAll(d, 0, {"img"})
    IN  [i \in 1..Len(imgs) |-> SrcOf(d, imgs[i])]

\* C22: the card's extractor is given the markup the sanitizer is given,
\* the output of the one preprocessor; so when that markup has one img, an
\* [img]U[/img] of the contents with a safe U, the card's image is U.
C22_SamePreprocessor ==
    (rendered /\ pc = "sanitized" /\ contents.type = "string") =>
        /\ cardPreprocessSteamNewsHtml(contents).value = preprocessed.value
        /\ (/\ entry = NoEntry
            /\ QueryAll(ContentsTree, 0, {"img"}) = <<>>
            /\ Len(ImgSrcs(dom0)) = 1
            /\ Gated(ImgSrcs(dom0)[1]) # Null)
             => newsCover = Gated(ImgSrcs(dom0)[1])

\* The maximum input length of the spec's size guard, in pieces of text
MaxInputLength == 8

\* C23: contents longer than the maximum input length are not sanitized,
\* the modal's memo ends in an outcome of its own for them ("too-large");
\* contents within the limit are sanitized.
C23_SizeLimit ==
    (Preprocessed /\ contents.type = "string") =>
        IF Len(contents.chars) > MaxInputLength
        THEN pc = "too-large"
        ELSE pc = "sanitized"

-----------------------------------------------------------------------------
(* The news service of the main process: getSteamNewsForLibrary and its
   helpers.  Date.now() and the dates of the library are counted in minutes. *)

Minute == 1000 * 60

NEWS_CACHE_TTL_MS == 1000 * 60 * 60

MAX_GAMES_WITH_NEWS == 10

Day == (1000 * 60 * 60 * 24) \div Minute

\* What the Steam API answers for an appId: a body with appnews.newsitems,
\* a body without it, or no answer (the request errors or times out)
Items(gids) == [kind |-> "items", newsitems |-> gids]

NoData == [kind |-> "nodata", newsitems |-> <<>>]

RequestFails == [kind |-> "error", newsitems |-> <<>>]

\* language.toLowerCase().includes("en")
IncludesEn(lang) == lang \in {"en", "english"}

\* fetchSteamNews: the items, and the requests made and the errors logged on
\* the way.  The second request has the parameters of the first.
fetchSteamNews(api, appId, lang) ==
    LET languageCode == IF IncludesEn(lang) THEN "english" ELSE lang
        response == api[appId]
    IN  IF response.kind = "error"
        THEN [newsItems |-> <<>>, requests |-> 1, errors |-> 1]
        ELSE IF response.kind = "items"
        THEN [newsItems |-> [i \in 1..Len(response.newsitems) |->
                                [gid |-> response.newsitems[i], appid |-> appId]],
              requests |-> 1, errors |-> 0]
        ELSE IF languageCode # "english"
        THEN [newsItems |-> <<>>, requests |-> 2, errors |-> 0]
        ELSE [newsItems |-> <<>>, requests |-> 1, errors |-> 0]

\* calculateRelevanceScore at Date.now() = t
calculateRelevanceScore(game, hasNews, t) ==
    IF ~hasNews THEN 0 - 1
    ELSE (IF game.isFavorite THEN 100 ELSE 0)
         + (IF Truthy(game.executablePath) THEN 50 ELSE 0)
         + (IF game.lastTimePlayed = Null THEN 0
            ELSE LET sincePlay == t - game.lastTimePlayed[1]
                 IN  IF sincePlay <= 7 * Day THEN 40
                     ELSE IF sincePlay <= 30 * Day THEN 20
                     ELSE IF sincePlay <= 90 * Day THEN 10
                     ELSE 0)

\* gameAssets?.coverImageUrl || null
AssetOf(assets, field) == IF assets = Null THEN Null ELSE OrElse(assets[1][field], Null)

\* What one newsPromise resolves to for the row (game, assets) of the
\* library, at Date.now() = t
NewsResult(api, row, lang, t) ==
    LET game == row.game
        newsItems == fetchSteamNews(api, game.objectId, lang).newsItems
    IN  [appId |-> game.objectId,
         gameTitle |-> game.title,
         newsItems |-> newsItems,
         coverImageUrl |-> AssetOf(row.assets, "coverImageUrl"),
         libraryImageUrl |-> AssetOf(row.assets, "libraryImageUrl"),
         isFavorite |-> game.favorite,
         isInstalled |-> Truthy(game.executablePath),
         lastPlayed |-> game.lastTimePlayed,
         relevanceScore |->
             calculateRelevanceScore(
                 [isFavorite |-> game.favorite,
                  executablePath |-> game.executablePath,
                  lastTimePlayed |-> game.lastTimePlayed],
                 Len(newsItems) > 0, t)]

\* .sort((a, b) => b.relevanceScore - a.relevanceScore), a stable sort
RECURSIVE InsertByScore(_, _)
InsertByScore(sorted, e) ==
    IF sorted = <<>> THEN <<e>>
    ELSE IF Head(sorted).relevanceScore >= e.relevanceScore
    THEN <<Head(sorted)>> \o InsertByScore(Tail(sorted), e)
    ELSE <<e>> \o sorted

RECURSIVE SortByScore(_)
SortByScore(s) ==
    IF s = <<>> THEN <<>>
    ELSE InsertByScore(SortByScore(SubSeq(s, 1, Len(s) - 1)), s[Len(s)])

\* const { relevanceScore, ...rest } = entry
WithoutScore(e) == [f \in DOMAIN e \ {"relevanceScore"} |-> e[f]]

\* .slice(0, n)
Slice(s, n) == SubSeq(s, 1, IF Len(s) < n THEN Len(s) ELSE n)

filteredNewsUnsliced(newsResults) ==
    LET sorted == SortByScore(SelectSeq(newsResults, LAMBDA e : Len(e.newsItems) > 0))
    IN  [i \in 1..Len(sorted) |-> WithoutScore(sorted[i])]

filteredNews(newsResults) ==
    LET sorted == SortByScore(SelectSeq(newsResults, LAMBDA e : Len(e.newsItems) > 0))
        top == Slice(sorted, MAX_GAMES_WITH_NEWS)
    IN  [i \in 1..Len(top) |-> WithoutScore(top[i])]

\* The rows of the library a round goes on with: not deleted, of the Steam
\* shop, with an objectId
steamGames(rows) ==
    SelectSeq(rows, LAMBDA row : /\ ~row.game.isDeleted
                                 /\ row.game.shop = "steam"
                                 /\ row.game.objectId # "")

\* newsCache && Date.now() - newsCache.timestamp < NEWS_CACHE_TTL_MS
CacheFreshInclusive(cache, t) ==
    cache # Null /\ (t - cache[1].timestamp) * Minute <= NEWS_CACHE_TTL_MS

CacheFresh(cache, t) ==
    cache # Null /\ (t - cache[1].timestamp) * Minute < NEWS_CACHE_TTL_MS

(* A call of getSteamNewsForLibrary: where it stands (idle, db: waiting for
   the games, net: waiting for the newsPromises, done), the Steam games it
   read, what each newsPromise resolved to so far, the requests and
   database reads it issued, the errors it logged, whether its round threw,
   and what it returned. *)
IdleCall ==
    [step |-> "idle", steamGames |-> <<>>, results |-> <<>>, requests |-> 0,
     reads |-> 0, errors |-> 0, thrown |-> FALSE, ret |-> Null]

\* What the logger wrote about the last round that ended: whether it threw,
\* the games it fetched for and the fetches that errored
NoRound == [threw |-> FALSE, fetched |-> 0, errors |-> 0]

Callers == DOMAIN calls

\* The call starts: the cache test and, on a miss, the read of the games
GetSteamNewsForLibrary(c) ==
    /\ calls[c].step \in {"idle", "done"}
    /\ IF CacheFresh(newsCache, now)
       THEN calls' = [calls EXCEPT ![c] =
                         [IdleCall EXCEPT !.step = "done",
                                          !.ret = Some(newsCache[1].news)]]
       ELSE calls' = [calls EXCEPT ![c] =
                         [IdleCall EXCEPT !.step = "db", !.reads = 1]]
    /\ UNCHANGED <<games, steamApi, language, now, newsCache, roundLog, renderer, store>>

\* The games arrive and the newsPromises start, each with its first
\* request; or the read fails and the round ends in the catch
GamesRead(c) ==
    /\ calls[c].step = "db"
    /\ \/ /\ LET sg == steamGames(games)
             IN  calls' = [calls EXCEPT ![c].step = "net",
                                        ![c].steamGames = sg,
                                        ![c].results = [i \in 1..Len(sg) |-> Null],
                                        ![c].requests = Len(sg)]
          /\ UNCHANGED roundLog
       \/ /\ calls' = [calls EXCEPT ![c].step = "done",
                                    ![c].thrown = TRUE,
                                    ![c].ret = Some(<<>>)]
          /\ roundLog' = [threw |-> TRUE, fetched |-> 0, errors |-> 0]
    /\ UNCHANGED <<games, steamApi, language, now, newsCache, renderer, store>>

\* One newsPromise resolves: the answer of the API, the assets, the score
NewsPromiseResolves(c, i) ==
    /\ calls[c].step = "net"
    /\ i \in 1..Len(calls[c].results)
    /\ calls[c].results[i] = Null
    /\ LET row == calls[c].steamGames[i]
           fetched == fetchSteamNews(steamApi, row.game.objectId, language)
       IN  calls' = [calls EXCEPT
                        ![c].results[i] = Some(NewsResult(steamApi, row, language, now)),
                        ![c].requests = @ + fetched.requests - 1,
                        ![c].reads = @ + 1,
                        ![c].errors = @ + fetched.errors]
    /\ UNCHANGED <<games, steamApi, language, now, newsCache, roundLog, renderer, store>>

\* Promise.all resolves: filter, sort, slice, store, return
RoundEnds(c) ==
    /\ calls[c].step = "net"
    /\ \A i \in 1..Len(calls[c].results) : calls[c].results[i] # Null
    /\ LET newsResults == [i \in 1..Len(calls[c].results) |-> calls[c].results[i][1]]
           filtered == filteredNews(newsResults)
       IN  /\ newsCache' = Some([news |-> filtered, timestamp |-> now])
           /\ calls' = [calls EXCEPT ![c].step = "done", ![c].ret = Some(filtered)]
           /\ roundLog' = [threw |-> FALSE, fetched |-> Len(newsResults),
                           errors |-> calls[c].errors]
    /\ UNCHANGED <<games, steamApi, language, now, renderer, store>>

clearSteamNewsCache ==
    /\ newsCache # Null
    /\ newsCache' = Null
    /\ UNCHANGED <<games, steamApi, language, now, calls, roundLog, renderer, store>>

\* Half an hour passes
TickMinutes == NEWS_CACHE_TTL_MS \div (2 * Minute)

Epoch == 100 * Day

\* Number of half hours the clock goes through
MaxTicks == 3

Tick ==
    /\ now < Epoch + MaxTicks * TickMinutes
    /\ now' = now + TickMinutes
    /\ UNCHANGED <<games, steamApi, language, newsCache, calls, roundLog, renderer, store>>

(* The libraries: rows of the games sublevel with the assets stored under
   the same key, and with them what the Steam API has for the game.  The
   iterator gives the rows in the order of their keys, shop:objectId.  A
   small library has at most MaxGames of the games below and two callers
   (the two news sections of the renderer); the large one has one more
   Steam game with news than MAX_GAMES_WITH_NEWS and one caller. *)

MaxGames == 2

Row(id, shop, deleted, favorite, exe, last, assets, feed) ==
    [game |-> [objectId |-> id, title |-> id, shop |-> shop, isDeleted |-> deleted,
               favorite |-> favorite, executablePath |-> exe,
               lastTimePlayed |-> last],
     assets |-> assets,
     feed |-> feed]

ExePath == Some(<<"game.exe">>)

Assets == Some([coverImageUrl |-> Some(CoverUrl), libraryImageUrl |-> Some(LibraryUrl)])

\* In the order of their keys
GameKinds ==
    << \* of another shop
      Row("50", "epic", FALSE, TRUE, ExePath, Null, Assets, Items(<<"n6">>)),
      \* favorite, installed, played yesterday
      Row("10", "steam", FALSE, TRUE, ExePath, Some(Epoch - Day), Assets,
          Items(<<"n1", "n2">>)),
      \* never played, no assets
      Row("20", "steam", FALSE, FALSE, Null, Null, Null, Items(<<"n3">>)),
      \* played seven days before the first call, to the minute
      Row("30", "steam", FALSE, FALSE, Null, Some(Epoch - 7 * Day), Null,
          Items(<<"n4">>)),
      \* deleted
      Row("40", "steam", TRUE, TRUE, ExePath, Null, Assets, Items(<<"n5">>)),
      \* the request for its news fails
      Row("60", "steam", FALSE, TRUE, Null, Null, Assets, RequestFails),
      \* the API has no news for it
      Row("70", "steam", FALSE, FALSE, ExePath, Null, Null, Items(<<>>)),
      \* the API answers without appnews
      Row("80", "steam", FALSE, FALSE, Null, Null, Null, NoData) >>

SmallLibraries ==
    { [i \in 1..Cardinality(S) |-> GameKinds[SortedSeq(S)[i]]] :
        S \in {T \in SUBSET (1..Len(GameKinds)) : Cardinality(T) <= MaxGames} }

BigIds == <<"101", "102", "103", "104", "105", "106", "107", "108", "109", "110", "111">>

\* MAX_GAMES_WITH_NEWS + 1 Steam games with news, of all scores
BigLibrary ==
    [i \in 1..Len(BigIds) |->
        Row(BigIds[i], "steam", FALSE, i % 2 = 0,
            IF i % 3 = 0 THEN ExePath ELSE Null,
            CASE i % 4 = 0 -> Null
              [] i % 4 = 1 -> Some(Epoch - Day)
              [] i % 4 = 2 -> Some(Epoch - 30 * Day)
              [] OTHER -> Some(Epoch - 91 * Day),
            Null, Items(<<"n">>))]

\* The two sublevels, and the API, of a library
GamesOf(rows) == [i \in 1..Len(rows) |-> [game |-> rows[i].game, assets |-> rows[i].assets]]

ApiOf(rows) == [id \in {rows[i].game.objectId : i \in 1..Len(rows)} |->
                   (CHOOSE r \in Range(rows) : r.game.objectId = id).feed]

Languages == {"en", "es"}

InitService ==
    /\ \/ \E rows \in SmallLibraries :
              /\ games = GamesOf(rows)
              /\ steamApi = ApiOf(rows)
              /\ language \in Languages
              /\ calls = <<IdleCall, IdleCall>>
       \/ /\ games = GamesOf(BigLibrary)
          /\ steamApi = ApiOf(BigLibrary)
          /\ language = "en"
          /\ calls = <<IdleCall>>
    /\ now = Epoch
    /\ newsCache = Null
    /\ roundLog = NoRound
    /\ StoreIdle
    /\ RendererIdle

NextService ==
    \/ \E c \in Callers : GetSteamNewsForLibrary(c)
    \/ \E c \in Callers : GamesRead(c)
    \/ \E c \in Callers : \E i \in 1..Len(BigIds) : NewsPromiseResolves(c, i)
    \/ \E c \in Callers : RoundEnds(c)
    \/ clearSteamNewsCache
    \/ Tick

SpecService == InitService /\ [][NextService]_vars

-----------------------------------------------------------------------------
(* The news cache *)

\* Caller c starts a call in this step
Starts(c) == calls[c].step \in {"idle", "done"} /\ calls'[c] # calls[c]

\* Caller c's fetch round ends in this step
Ends(c) == calls[c].step \in {"db", "net"} /\ calls'[c].step = "done"

\* The call that starts finds a cache stored less than one hour ago
WithinTheHour ==
    newsCache # Null /\ (now - newsCache[1].timestamp) * Minute < 1000 * 60 * 60

\* The call that starts returns the stored list at once, with no request
\* and no database read, and leaves the cache alone
ServedFromCache(c) ==
    /\ calls'[c].step = "done"
    /\ calls'[c].ret = Some(newsCache[1].news)
    /\ calls'[c].requests = 0
    /\ calls'[c].reads = 0
    /\ newsCache' = newsCache

\* The call that starts begins a fetch round with the read of the games
BeginsRound(c) == calls'[c].step = "db" /\ calls'[c].reads = 1 /\ calls'[c].ret = Null

\* The round that ends has put its result in the cache, stamped now
Stored(c) == newsCache' = Some([news |-> calls'[c].ret[1], timestamp |-> now])

\* C24 as stated: a call less than one hour after the last store returns
\* the stored list and issues no request and no database read; a call at or
\* after the TTL, or with the cache cleared, performs a fetch round, and the
\* round replaces the cache with its result and a fresh timestamp.
C24_CacheTtl ==
    [][\A c \in Callers :
          /\ Starts(c) => IF WithinTheHour THEN ServedFromCache(c) ELSE BeginsRound(c)
          /\ Ends(c) => Stored(c)]_vars

\* C24 as amended: the same, but a round that throws (the read of the
\* games fails) returns the empty list and leaves the cache as it was.
C24_CacheTtlUnlessThrown ==
    [][\A c \in Callers :
          /\ Starts(c) => IF WithinTheHour THEN ServedFromCache(c) ELSE BeginsRound(c)
          /\ Ends(c) => IF calls'[c].thrown
                        THEN calls'[c].ret = Some(<<>>) /\ newsCache' = newsCache
                        ELSE Stored(c)]_vars

\* A call was served, half an hour or more after the store, a list with
\* news that was stored an hour or more after the first call
C24_Witness ==
    \E c \in Callers :
        /\ calls[c].step = "done"
        /\ calls[c].reads = 0
        /\ newsCache # Null
        /\ calls[c].ret = Some(newsCache[1].news)
        /\ newsCache[1].news # <<>>
        /\ now > newsCache[1].timestamp
        /\ newsCache[1].timestamp >= Epoch + 60

\* The last round that ended failed: it threw, or each of its fetches errored
RoundFailed == roundLog.threw \/ (roundLog.fetched > 0 /\ roundLog.errors = roundLog.fetched)

\* C25: an error outcome is never cached: the call after a round that
\* failed performs a new fetch round.
C25_ErrorNotCached ==
    [][\A c \in Callers : (Starts(c) /\ RoundFailed) => BeginsRound(c)]_vars

\* The entries with their scores that the round of call k sorted
ScoredBy(k) == {k.results[i][1] : i \in 1..Len(k.results)}

\* C26: a list returned by a fetch round has at most 10 entries, each for
\* a Steam game of the library that is not deleted, each with one news item
\* or more, none with a relevanceScore field, in the order of their scores,
\* highest first.
C26_RoundResult ==
    \A c \in Callers :
        (calls[c].step = "done" /\ calls[c].reads > 0 /\ ~calls[c].thrown) =>
            LET ret == calls[c].ret[1]
                Score(e) == (CHOOSE r \in ScoredBy(calls[c]) : r.appId = e.appId).relevanceScore
            IN  /\ Len(ret) <= 10
                /\ \A i \in 1..Len(ret) :
                      /\ \E g \in 1..Len(games) :
                            /\ games[g].game.objectId = ret[i].appId
                            /\ games[g].game.shop = "steam"
                            /\ ~games[g].game.isDeleted
                      /\ Len(ret[i].newsItems) >= 1
                      /\ "relevanceScore" \notin DOMAIN ret[i]
                      /\ ret[i].isFavorite \in BOOLEAN
                /\ \A i, j \in 1..Len(ret) : i < j => Score(ret[i]) >= Score(ret[j])
                /\ \A i, j \in 1..Len(ret) : i < j => ret[i].appId # ret[j].appId

\* Eleven games had news and ten were returned, the first with a higher
\* score than the last
C26_Witness ==
    \E c \in Callers :
        /\ calls[c].step = "done"
        /\ Cardinality({r \in ScoredBy(calls[c]) : Len(r.newsItems) > 0}) = 11
        /\ Len(calls[c].ret[1]) = 10
        /\ calls[c].ret[1][1].isFavorite /\ ~calls[c].ret[1][10].isFavorite

-----------------------------------------------------------------------------
(* The collections of the main process.  collections is the collections
   sublevel, from the id of a collection to the collection stored under its
   key (createdAt and updatedAt are left out).  ops are the invocations of
   the handlers, each one where it stands: idle (not yet invoked), get, put,
   del, all (waiting for that operation of the sublevel), done.  A handler
   runs from one await to the next in one step, and a get, put, del or
   values().all() takes effect in the step in which it resolves. *)

Collection(id, name, gameIds, smart) ==
    [id |-> id, name |-> name, gameIds |-> gameIds, isSmartCollection |-> smart]

Put(store0, id, value) ==
    [k \in DOMAIN store0 \cup {id} |-> IF k = id THEN value ELSE store0[k]]

Del(store0, id) == [k \in DOMAIN store0 \ {id} |-> store0[k]]

\* collectionsSublevel.get(key): the collection, or nothing
Get(store0, id) == IF id \in DOMAIN store0 THEN Some(store0[id]) ELSE Null

IdleOp ==
    [kind |-> "none", id |-> "", arg |-> "", step |-> "idle", existing |-> {},
     pending |-> Null, wrote |-> FALSE, failed |-> FALSE, ret |-> Null]

Slots == DOMAIN ops

\* The handler of slot s ends with what it returns, or with an error
Returns(s, value) == [ops EXCEPT ![s].step = "done", ![s].pending = Null, ![s].ret = value]

Throws(s) == [ops EXCEPT ![s].step = "done", ![s].pending = Null, ![s].failed = TRUE]

\* The handler of slot s calls put(key, value) and waits
AwaitsPut(s, value) == [ops EXCEPT ![s].step = "put", ![s].pending = Some(value)]

\* The id createCollection makes up, one that was never used
NewIds == <<"new1", "new2", "new3">>

\* Slot t is between its invocation and its end
Running(t) == ops[t].step \notin {"idle", "done"}

\* A handler is invoked in slot s, the slots being taken in their order.
\* The renderer invokes no handler while the main process is starting.
Invoked(s) ==
    /\ ops[s].step = "idle"
    /\ \A t \in Slots : t < s => ops[t].step # "idle"
    /\ \A t \in Slots : ~(Running(t) /\ ops[t].kind = "init")

createCollection(s, name) ==
    /\ Invoked(s)
    /\ ops' = [ops EXCEPT ![s] =
                  [IdleOp EXCEPT !.kind = "create", !.id = NewIds[s], !.arg = name,
                                 !.step = "put",
                                 !.pending = Some(Collection(NewIds[s], name, <<>>, FALSE))]]
    /\ UNCHANGED <<collections, service, renderer>>

\* renameCollection, addGameToCollection, removeGameFromCollection up to
\* their get
ReadsCollection(s, kind, id, arg) ==
    /\ Invoked(s)
    /\ kind \in {"rename", "add", "remove"}
    /\ ops' = [ops EXCEPT ![s] =
                  [IdleOp EXCEPT !.kind = kind, !.id = id, !.arg = arg, !.step = "get"]]
    /\ UNCHANGED <<collections, service, renderer>>

deleteCollection(s, id) ==
    /\ Invoked(s)
    /\ ops' = [ops EXCEPT ![s] = [IdleOp EXCEPT !.kind = "delete", !.id = id, !.step = "del"]]
    /\ UNCHANGED <<collections, service, renderer>>

\* initializeSmartCollections is no handler: the main process calls it as
\* it starts, when no handler is running.
initializeSmartCollections(s) ==
    /\ Invoked(s)
    /\ \A t \in Slots : ~Running(t)
    /\ ops' = [ops EXCEPT ![s] = [IdleOp EXCEPT !.kind = "init", !.step = "all"]]
    /\ UNCHANGED <<collections, service, renderer>>

renameCollectionAfterGet(s, collection) ==
    IF collection = Null THEN Throws(s)
    ELSE AwaitsPut(s, [collection[1] EXCEPT !.name = ops[s].arg])

addGameAlways(s, collection) ==
    IF collection = Null THEN Throws(s)
    ELSE IF collection[1].isSmartCollection THEN Throws(s)
    ELSE AwaitsPut(s, [collection[1] EXCEPT !.gameIds = Append(@, ops[s].arg)])

addGameToCollectionAfterGet(s, collection) ==
    IF collection = Null THEN Throws(s)
    ELSE IF collection[1].isSmartCollection THEN Throws(s)
    ELSE IF ops[s].arg \notin Range(collection[1].gameIds)
    THEN AwaitsPut(s, [collection[1] EXCEPT !.gameIds = Append(@, ops[s].arg)])
    ELSE Returns(s, collection)

removeGameFromSmartToo(s, collection) ==
    IF collection = Null THEN Throws(s)
    ELSE AwaitsPut(s, [collection[1] EXCEPT
                          !.gameIds = SelectSeq(@, LAMBDA id : id # ops[s].arg)])

removeGameFromCollectionAfterGet(s, collection) ==
    IF collection = Null THEN Throws(s)
    ELSE IF collection[1].isSmartCollection THEN Throws(s)
    ELSE AwaitsPut(s, [collection[1] EXCEPT
                          !.gameIds = SelectSeq(@, LAMBDA id : id # ops[s].arg)])

\* The get of slot s resolves and the handler goes on to its put, its
\* return or its throw
GetResolves(s) ==
    /\ ops[s].step = "get"
    /\ LET collection == Get(collections, ops[s].id)
       IN  ops' = CASE ops[s].kind = "rename" -> renameCollectionAfterGet(s, collection)
                    [] ops[s].kind = "add" -> addGameToCollectionAfterGet(s, collection)
                    [] OTHER -> removeGameFromCollectionAfterGet(s, collection)
    /\ UNCHANGED <<collections, service, renderer>>

\* The smart collections, in the order of the loop
SmartCollections ==
    << Collection("favorites", "Favorites", <<>>, TRUE),
       Collection("installed", "Installed", <<>>, TRUE) >>

\* The loop of initializeSmartCollections from its i-th round on: up to
\* the next put, or to the end
RECURSIVE SmartLoop(_, _, _)
SmartLoop(s, i, existing) ==
    IF i > Len(SmartCollections) THEN Returns(s, Null)
    ELSE IF SmartCollections[i].id \in existing THEN SmartLoop(s, i + 1, existing)
    ELSE [ops EXCEPT ![s].step = "put", ![s].arg = SmartCollections[i].id,
                     ![s].existing = existing,
                     ![s].pending = Some(SmartCollections[i])]

\* values().all() resolves
AllResolves(s) ==
    /\ ops[s].step = "all"
    /\ ops' = SmartLoop(s, 1, {collections[k].id : k \in DOMAIN collections})
    /\ UNCHANGED <<collections, service, renderer>>

\* The put of slot s resolves: the value is stored and the handler returns
\* it, or goes on with its loop
PutResolves(s) ==
    /\ ops[s].step = "put"
    /\ LET value == ops[s].pending[1]
       IN  /\ collections' = Put(collections, value.id, value)
           /\ ops' = IF ops[s].kind = "init"
                     THEN LET i == CHOOSE j \in 1..Len(SmartCollections) :
                                       SmartCollections[j].id = value.id
                              next == SmartLoop(s, i + 1, ops[s].existing)
                          IN  [next EXCEPT ![s].wrote = TRUE]
                     ELSE [Returns(s, Some(value)) EXCEPT ![s].wrote = TRUE]
    /\ UNCHANGED <<service, renderer>>

DelResolves(s) ==
    /\ ops[s].step = "del"
    /\ collections' = Del(collections, ops[s].id)
    /\ ops' = [Returns(s, Null) EXCEPT ![s].wrote = TRUE]
    /\ UNCHANGED <<service, renderer>>

\* The operation slot s waits for rejects: the handler's catch throws, the
\* catch of initializeSmartCollections logs and returns
Rejects(s) ==
    /\ ops[s].step \in {"get", "put", "del", "all"}
    /\ ops' = IF ops[s].kind = "init" THEN Returns(s, Null) ELSE Throws(s)
    /\ UNCHANGED <<collections, service, renderer>>

(* The stores the handlers start from, and what they are invoked with *)

\* Number of handler invocations
MaxOps == 2

Games == {"g1", "g2"}

InitialStores ==
    { Del(Put(<<>>, "c1", Collection("c1", "A", <<>>, FALSE)), "c1"),
      Put(<<>>, "c1", Collection("c1", "A", <<>>, FALSE)),
      Put(<<>>, "c1", Collection("c1", "A", <<"g1">>, FALSE)),
      \* the favorites were renamed, the installed deleted
      Put(Put(<<>>, "c1", Collection("c1", "A", <<"g2", "g1">>, FALSE)),
          "favorites", Collection("favorites", "Favs", <<>>, TRUE)) }

\* The ids the renderer has: those of the collections it listed at some
\* time, of the smart collections, and of the collections it created
KnownIds ==
    {"c1", "favorites"}
    \cup {ops[t].id : t \in {u \in Slots : /\ ops[u].kind = "create"
                                           /\ ops[u].step = "done"
                                           /\ ~ops[u].failed}}

InitStore ==
    /\ collections \in InitialStores
    /\ ops = [s \in 1..MaxOps |-> IdleOp]
    /\ ServiceIdle
    /\ RendererIdle

NextStore ==
    \/ \E s \in Slots : createCollection(s, "N")
    \/ \E s \in Slots : \E id \in KnownIds : ReadsCollection(s, "rename", id, "B")
    \/ \E s \in Slots : \E id \in KnownIds : \E g \in Games :
          \E kind \in {"add", "remove"} : ReadsCollection(s, kind, id, g)
    \/ \E s \in Slots : \E id \in KnownIds : deleteCollection(s, id)
    \/ \E s \in Slots : initializeSmartCollections(s)
    \/ \E s \in Slots : GetResolves(s)
    \/ \E s \in Slots : AllResolves(s)
    \/ \E s \in Slots : PutResolves(s)
    \/ \E s \in Slots : DelResolves(s)
    \/ \E s \in Slots : Rejects(s)

SpecStore == InitStore /\ [][NextStore]_vars

-----------------------------------------------------------------------------
(* The collections *)

\* Slot s is a call of the handler kind that returned without an error
Succeeded(s, kind) == ops[s].kind = kind /\ ops[s].step = "done" /\ ~ops[s].failed

\* C27: no lost update: when two addGameToCollection calls for the same
\* collection and two games have both returned without an error (and no
\* other call removed a game from the collection or deleted it), the stored
\* collection has both games, however the gets and puts of the two were
\* interleaved.
C27_NoLostUpdate ==
    \A a, b \in Slots :
        (/\ a # b
         /\ Succeeded(a, "add") /\ Succeeded(b, "add")
         /\ ops[a].id = ops[b].id
         /\ ops[a].arg # ops[b].arg
         /\ \A t \in Slots : ops[t].id = ops[a].id => ops[t].kind \notin {"remove", "delete"})
        => /\ ops[a].id \in DOMAIN collections
           /\ {ops[a].arg, ops[b].arg} \subseteq Range(collections[ops[a].id].gameIds)

\* C28: once a deleteCollection of a collection has returned, the
\* collection is not in the store (createCollection makes a new id each
\* time, and the smart collections are not looked at while
\* initializeSmartCollections may make them again), whatever call on it
\* was between its get and its put at the time.
C28_DeletedStaysDeleted ==
    \A d \in Slots :
        (/\ Succeeded(d, "delete")
         /\ \A t \in Slots : ops[t].kind # "init")
        => ops[d].id \notin DOMAIN collections

NoDuplicates(gameIds) ==
    \A i, j \in 1..Len(gameIds) : i # j => gameIds[i] # gameIds[j]

\* The get of slot s resolves in this step and finds a collection
Finds(s) ==
    /\ ops[s].step = "get"
    /\ ops'[s].step # "get"
    /\ ops[s].id \in DOMAIN collections

\* C29: no stored collection has a game twice, after any interleaving of
\* createCollection, addGameToCollection and removeGameFromCollection (and
\* the other handlers) from stores without duplicates; an
\* addGameToCollection that finds the game in the collection returns the
\* collection as it is and puts nothing; the collection that
\* removeGameFromCollection puts and returns has the game nowhere.
C29_NoDuplicates ==
    [][/\ \A id \in DOMAIN collections' : NoDuplicates(collections'[id].gameIds)
       /\ \A s \in Slots :
             (/\ Finds(s)
              /\ ops[s].kind = "add"
              /\ ~ops'[s].failed
              /\ ops[s].arg \in Range(collections[ops[s].id].gameIds))
             => /\ ops'[s].step = "done"
                /\ ops'[s].ret = Some(collections[ops[s].id])
                /\ ~ops'[s].wrote
                /\ collections' = collections
       /\ \A s \in Slots :
             (ops[s].kind = "remove" /\ ops[s].step = "put" /\ ops'[s].wrote)
             => /\ ops[s].arg \notin Range(collections'[ops[s].id].gameIds)
                /\ ops'[s].ret = Some(collections'[ops[s].id])]_vars

\* A game was added to a collection that had one, and a second call to add
\* it returned the collection without a put
C29_Witness ==
    \E s, t \in Slots :
        /\ Succeeded(s, "add") /\ ops[s].wrote
        /\ Succeeded(t, "add") /\ ~ops[t].wrote
        /\ ops[t].ret = Some(collections[ops[t].id])
        /\ ops[s].id = ops[t].id /\ ops[s].arg = ops[t].arg
        /\ Len(collections[ops[s].id].gameIds) = 2

\* C30: addGameToCollection and removeGameFromCollection on a smart
\* collection, or on an id that is not in the store, end with an error,
\* put nothing and leave the store as it is; initializeSmartCollections
\* puts nothing but the favorites and the installed collection, each only
\* where the store has none, and leaves every stored collection as it is.
C30_SmartProtected ==
    [][\A s \in Slots :
          /\ (/\ ops[s].step = "get"
              /\ ops'[s].step # "get"
              /\ ops[s].kind \in {"add", "remove"}
              /\ \/ ops[s].id \notin DOMAIN collections
                 \/ collections[ops[s].id].isSmartCollection)
             => /\ ops'[s].step = "done"
                /\ ops'[s].failed
                /\ ~ops'[s].wrote
                /\ collections' = collections
          /\ (ops[s].kind = "init" /\ ops'[s] # ops[s])
             => /\ \A k \in DOMAIN collections :
                      k \in DOMAIN collections' /\ collections'[k] = collections[k]
                /\ \A k \in DOMAIN collections' \ DOMAIN collections :
                      /\ k \in {"favorites", "installed"}
                      /\ collections'[k] = Collection(k, IF k = "favorites" THEN "Favorites"
                                                         ELSE "Installed", <<>>, TRUE)]_vars

\* The renamed favorites are as they were after initializeSmartCollections
\* made the installed collection, and a call to remove a game from the
\* favorites ended with an error
C30_Witness ==
    /\ \E s \in Slots : Succeeded(s, "init") /\ ops[s].wrote
    /\ \E s \in Slots :
          /\ ops[s].kind = "remove" /\ ops[s].id = "favorites"
          /\ ops[s].step = "done" /\ ops[s].failed
    /\ "installed" \in DOMAIN collections
    /\ "favorites" \in DOMAIN collections
    /\ collections["favorites"].name = "Favs"

====
